---- MODULE Spec2Model ----
(***************************************************************************)
(* A model of swagger-to-mcp: the specification loader, the security gate, *)
(* the tool compiler (createMCPFromSwagger) and the request executor       *)
(* (buildRequestConfig and the tool handler).                              *)
(*                                                                         *)
(* JavaScript strings are sequences of one-character strings, so that the  *)
(* string operations of the code (concatenation, startsWith, replace,      *)
(* toUpperCase, trim, slice) are computed and not assumed.  A JavaScript   *)
(* object is a sequence of [key, value] entries in insertion order, which  *)
(* is the order Object.entries walks.                                      *)
(***************************************************************************)
EXTENDS Integers, Sequences, FiniteSets, TLC

VARIABLES
    \* ---- createMCPFromSwagger (the tool compiler) ----
    swagger,          \* the specification document handed to the compiler
    options,          \* [manifestOnly, port]
    hostRejectsDuplicates, \* whether the host's registerTool throws on a name it holds
    pc,               \* position of the compile run
    pathIdx,          \* index of the current entry of Object.entries(paths)
    methodIdx,        \* index of the current entry of Object.entries(methods)
    registeredTools,  \* the Set of tool names of this compile run
    serverTools,      \* the host's tool table: the names registered with it
    manifest,         \* manifest.tools
    toolCount,
    manifestFile,     \* what mcp.json holds: "none" or the tools written
    result,           \* what the run returned or threw
    trail,            \* one record per entry walked: what happened to it
    \* ---- loadSwagger and the security gate ----
    source,           \* the path or URL given to loadSwagger / validateURL / validateFilePath
    securityConfig,
    cwd,              \* the working directory path.resolve starts from
    disk,             \* what the file system holds at the resolved path: [exists, isFile, size]
    content,          \* what the source yields once read or fetched: [format, doc]
    loadPc,           \* position of loadSwagger
    validated,        \* what validateURL / validateFilePath returned or threw
    fetches,          \* the axios.get calls issued
    reads,            \* the fs.readFileSync calls made
    loaded,           \* what loadSwagger returned or threw
    \* ---- a registered tool's handler (the request executor) ----
    call,             \* [operation, method, route, baseUrl, input] of the invocation
    callPc,           \* position of the handler
    request,          \* the axios configuration buildRequestConfig returned
    outcome,          \* what the handler returned or threw
    dispatched,       \* the requests handed to axios
    \* ---- schema.js called on its own ----
    schemaArgs,       \* the arguments of the call
    schemaResult,     \* what the call returned
    schemaPc,
    \* ---- startServer and the process it runs in ----
    serverState,      \* "none", "listening", "closing", "closed"
    inFlight,         \* invocations accepted and not yet finished
    accepted,         \* invocations accepted so far
    signalsSeen,      \* SIGTERM / SIGINT deliveries handled
    timers,           \* force-exit timers armed
    processState,     \* "running", "exit0", "exit1"
    \* ---- concurrent invocations of the registered handlers ----
    toolTable,        \* per tool: the operation, method, route and base URL its handler closes over
    invocations,      \* per invocation: its tool, input, position, request and outcome
    validateErrors    \* per tool: validate.errors, the property each validate() call assigns

compileVars == <<swagger, options, hostRejectsDuplicates, pc, pathIdx, methodIdx,
                 registeredTools, serverTools, manifest, toolCount, manifestFile,
                 result, trail>>

loadVars == <<source, securityConfig, cwd, disk, content, loadPc, validated, fetches,
              reads, loaded>>

requestVars == <<call, callPc, request, outcome, dispatched>>

schemaVars == <<schemaArgs, schemaResult, schemaPc>>

serverVars == <<serverState, inFlight, accepted, signalsSeen, timers, processState>>

poolVars == <<toolTable, invocations, validateErrors>>

vars == <<compileVars, loadVars, requestVars, schemaVars, serverVars, poolVars>>

----------------------------------------------------------------------------
(* Strings *)

Min(a, b) == IF a < b THEN a ELSE b

LowerLetters == <<"a","b","c","d","e","f","g","h","i","j","k","l","m",
                  "n","o","p","q","r","s","t","u","v","w","x","y","z">>
UpperLetters == <<"A","B","C","D","E","F","G","H","I","J","K","L","M",
                  "N","O","P","Q","R","S","T","U","V","W","X","Y","Z">>

ToUpperChar(c) ==
    IF \E i \in 1..26 : LowerLetters[i] = c
    THEN UpperLetters[CHOOSE i \in 1..26 : LowerLetters[i] = c]
    ELSE c

ToLowerChar(c) ==
    IF \E i \in 1..26 : UpperLetters[i] = c
    THEN LowerLetters[CHOOSE i \in 1..26 : UpperLetters[i] = c]
    ELSE c

toUpperCase(s) == [i \in 1..Len(s) |-> ToUpperChar(s[i])]
toLowerCase(s) == [i \in 1..Len(s) |-> ToLowerChar(s[i])]

startsWith(s, p) == Len(p) <= Len(s) /\ SubSeq(s, 1, Len(p)) = p
endsWith(s, p) == Len(p) <= Len(s) /\ SubSeq(s, Len(s) - Len(p) + 1, Len(s)) = p

\* String.prototype.indexOf, 1-based; 0 when p does not occur in s.
indexOf(s, p) ==
    LET hits == {i \in 1..(Len(s) - Len(p) + 1) : SubSeq(s, i, i + Len(p) - 1) = p}
    IN IF hits = {} THEN 0 ELSE CHOOSE i \in hits : \A j \in hits : i <= j

\* String.prototype.replace with a string pattern: the FIRST occurrence only.
replaceFirst(s, p, r) ==
    LET i == indexOf(s, p)
    IN IF i = 0 THEN s
       ELSE SubSeq(s, 1, i - 1) \o r \o SubSeq(s, i + Len(p), Len(s))

\* String.prototype.replace with a /[...]/g character class: every occurrence.
replaceChars(s, class, r) == [i \in 1..Len(s) |-> IF s[i] \in class THEN r ELSE s[i]]

\* The characters of [\x00-\x1F\x7F] the model's inputs use.
ControlChars == {"\t", "\n", "\r"}
\* What String.prototype.trim strips.
WhiteSpace == {" ", "\t", "\n", "\r"}

trim(s) ==
    LET keep == {i \in 1..Len(s) : s[i] \notin WhiteSpace}
    IN IF keep = {} THEN <<>>
       ELSE SubSeq(s, CHOOSE i \in keep : \A j \in keep : i <= j,
                      CHOOSE i \in keep : \A j \in keep : j <= i)

----------------------------------------------------------------------------
(* JavaScript objects: sequences of [key, value] entries in insertion order *)

Keys(obj) == {obj[i].key : i \in DOMAIN obj}
Has(obj, k) == \E i \in DOMAIN obj : obj[i].key = k
Get(obj, k) == obj[CHOOSE i \in DOMAIN obj : obj[i].key = k].value
\* obj[k] = v: an existing key keeps its place, a new key goes last.
Put(obj, k, v) ==
    IF Has(obj, k)
    THEN [i \in DOMAIN obj |-> IF obj[i].key = k THEN [key |-> k, value |-> v] ELSE obj[i]]
    ELSE Append(obj, [key |-> k, value |-> v])
\* delete obj[k]
Delete(obj, k) == SelectSeq(obj, LAMBDA e : e.key # k)

RECURSIVE PutAll(_, _)
\* Object.assign(obj, more)
PutAll(obj, more) ==
    IF more = <<>> THEN obj
    ELSE PutAll(Put(obj, Head(more).key, Head(more).value), Tail(more))

\* The names left in place: nothing is deleted.
DeleteNone(obj, names) == obj

RECURSIVE DeleteAll(_, _)
\* for (const name of names) delete obj[name]
DeleteAll(obj, names) ==
    IF names = <<>> THEN obj ELSE DeleteAll(Delete(obj, Head(names)), Tail(names))

KeySeq(obj) == [i \in DOMAIN obj |-> obj[i].key]

RECURSIVE Dedupe(_)
\* [...new Set(list)]: the first occurrence of each element, in order.
Dedupe(list) ==
    IF list = <<>> THEN <<>>
    ELSE LET init == Dedupe(SubSeq(list, 1, Len(list) - 1))
             last == list[Len(list)]
         IN IF \E i \in DOMAIN init : init[i] = last THEN init ELSE Append(init, last)

----------------------------------------------------------------------------
(* security.js: sanitizeToolName, validatePort *)

MaxToolNameLength == 200
MinPort == 1
MaxPort == 65535

\* sanitizeToolName(name): [ok, value]; ok = FALSE is the thrown Error.
sanitizeToolName(name) ==
    IF name = <<>>
    THEN [ok |-> FALSE, value |-> <<>>]
    ELSE LET stripped == SelectSeq(name, LAMBDA c : c \notin ControlChars)
             trimmed == trim(stripped)
             sanitized == SubSeq(trimmed, 1, Min(MaxToolNameLength, Len(trimmed)))
         IN IF Len(sanitized) = 0
            THEN [ok |-> FALSE, value |-> <<>>]
            ELSE [ok |-> TRUE, value |-> sanitized]

\* validatePort(port): ports are integers here, so only the range check can fail.
validatePort(port) == port >= MinPort /\ port <= MaxPort

----------------------------------------------------------------------------
(* security.js: validateURL *)

S_colon == <<":">>
S_slash == <<"/">>

\* The index of the last occurrence of character c in s; 0 when there is none.
lastIndexOfChar(s, c) ==
    LET hits == {i \in DOMAIN s : s[i] = c}
    IN IF hits = {} THEN 0 ELSE CHOOSE i \in hits : \A j \in hits : j <= i

\* new URL(urlString) for the URLs of the special schemes: [ok, protocol,
\* hostname]. The scheme and the host are lower-cased, userinfo and port are
\* not part of hostname, and the hostname of an IPv6 literal keeps its square
\* brackets.
ParseURL(s) ==
    LET colon == indexOf(s, S_colon)
        rest == SubSeq(s, colon + 1, Len(s))
        afterSlashes == SubSeq(rest, 3, Len(rest))
        slash == indexOf(afterSlashes, S_slash)
        authority == IF slash = 0 THEN afterSlashes ELSE SubSeq(afterSlashes, 1, slash - 1)
        at == lastIndexOfChar(authority, "@")
        hostPort == SubSeq(authority, at + 1, Len(authority))
        close == indexOf(hostPort, <<"]">>)
        portColon == indexOf(hostPort, S_colon)
        host == IF hostPort # <<>> /\ hostPort[1] = "["
                THEN SubSeq(hostPort, 1, close)
                ELSE IF portColon = 0 THEN hostPort ELSE SubSeq(hostPort, 1, portColon - 1)
        failed == [ok |-> FALSE, protocol |-> <<>>, hostname |-> <<>>]
    IN IF colon <= 1 THEN failed
       ELSE IF \E i \in 1..(colon - 1) : s[i] \in WhiteSpace THEN failed
       ELSE IF ~startsWith(rest, <<"/", "/">>) THEN failed
       ELSE IF host = <<>> THEN failed
       ELSE [ok |-> TRUE, protocol |-> toLowerCase(SubSeq(s, 1, colon)),
             hostname |-> toLowerCase(host)]

Digits == {"0", "1", "2", "3", "4", "5", "6", "7", "8", "9"}

\* /^172\.(1[6-9]|2\d|3[01])\./
Matches172(h) ==
    /\ Len(h) >= 7
    /\ SubSeq(h, 1, 4) = <<"1", "7", "2", ".">>
    /\ \/ h[5] = "1" /\ h[6] \in {"6", "7", "8", "9"}
       \/ h[5] = "2" /\ h[6] \in Digits
       \/ h[5] = "3" /\ h[6] \in {"0", "1"}
    /\ h[7] = "."

\* isPrivateIP(hostname): PRIVATE_IP_RANGES.some(range => range.test(hostname))
isPrivateIP(hostname) ==
    \/ startsWith(hostname, <<"1", "2", "7", ".">>)
    \/ startsWith(hostname, <<"1", "0", ".">>)
    \/ Matches172(hostname)
    \/ startsWith(hostname, <<"1", "9", "2", ".", "1", "6", "8", ".">>)
    \/ startsWith(hostname, <<"1", "6", "9", ".", "2", "5", "4", ".">>)
    \/ hostname = <<":", ":", "1">>
    \/ startsWith(hostname, <<"f", "e", "8", "0", ":">>)
    \/ startsWith(hostname, <<"f", "c", "0", "0", ":">>)
    \/ startsWith(hostname, <<"f", "d", "0", "0", ":">>)

\* One entry of config.allowedHosts against the hostname (lines 75-82).
HostEntryAllows(entry, hostname) ==
    IF startsWith(entry, <<"*", ".">>)
    THEN LET domain == SubSeq(entry, 3, Len(entry))
         IN hostname = domain \/ endsWith(hostname, <<".">> \o domain)
    ELSE hostname = entry

Thrown(error) == [status |-> error, value |-> <<>>]
Returned(value) == [status |-> "ok", value |-> value]
NotCalled == [status |-> "none", value |-> <<>>]

\* The checks with the private-address test moved ahead of scheme and allowlist.
UrlChecksPrivateFirst(parsed, config) ==
    << [pass |-> parsed.ok, error |-> "InvalidURL"],
       [pass |-> ~(config.blockPrivateIPs /\ isPrivateIP(parsed.hostname)),
        error |-> "PrivateIPBlocked"],
       [pass |-> SubSeq(parsed.protocol, 1, Len(parsed.protocol) - 1) \in config.allowedSchemes,
        error |-> "SchemeNotAllowed"],
       [pass |-> \/ Len(config.allowedHosts) = 0
                 \/ \E i \in DOMAIN config.allowedHosts :
                       HostEntryAllows(config.allowedHosts[i], parsed.hostname),
        error |-> "HostNotAllowed"] >>

\* The four checks of validateURL as a list of [check passes, error] in the
\* order the code makes them.
UrlChecks(parsed, config) ==
    << [pass |-> parsed.ok, error |-> "InvalidURL"],
       [pass |-> SubSeq(parsed.protocol, 1, Len(parsed.protocol) - 1) \in config.allowedSchemes,
        error |-> "SchemeNotAllowed"],
       [pass |-> \/ Len(config.allowedHosts) = 0
                 \/ \E i \in DOMAIN config.allowedHosts :
                       HostEntryAllows(config.allowedHosts[i], parsed.hostname),
        error |-> "HostNotAllowed"],
       [pass |-> ~(config.blockPrivateIPs /\ isPrivateIP(parsed.hostname)),
        error |-> "PrivateIPBlocked"] >>

\* The first check of the list that fails; 0 when all pass.
FirstFailure(checks) ==
    LET bad == {i \in DOMAIN checks : ~checks[i].pass}
    IN IF bad = {} THEN 0 ELSE CHOOSE i \in bad : \A j \in bad : i <= j

\* validateURL(urlString, config): the parsed URL, or the error thrown.
validateURL(urlString, config) ==
    LET parsed == ParseURL(urlString)
        checks == UrlChecks(parsed, config)
        k == FirstFailure(checks)
    IN IF k = 0 THEN Returned(parsed) ELSE Thrown(checks[k].error)

----------------------------------------------------------------------------
(* security.js: validateFilePath *)

RECURSIVE Split(_)
\* s.split('/')
Split(s) ==
    LET i == indexOf(s, S_slash)
    IN IF i = 0 THEN <<s>> ELSE <<SubSeq(s, 1, i - 1)>> \o Split(SubSeq(s, i + 1, Len(s)))

RECURSIVE Normalize(_, _)
\* The segments of an absolute path with '', '.' and '..' segments resolved.
Normalize(segments, acc) ==
    IF segments = <<>> THEN acc
    ELSE LET seg == Head(segments)
         IN IF seg = <<>> \/ seg = <<".">> THEN Normalize(Tail(segments), acc)
            ELSE IF seg = <<".", ".">>
                 THEN Normalize(Tail(segments),
                                IF acc = <<>> THEN acc ELSE SubSeq(acc, 1, Len(acc) - 1))
                 ELSE Normalize(Tail(segments), Append(acc, seg))

RECURSIVE JoinPath(_)
JoinPath(segments) ==
    IF segments = <<>> THEN <<>> ELSE S_slash \o Head(segments) \o JoinPath(Tail(segments))

\* The segments of path.resolve(p) from the working directory dir.
ResolvedSegments(dir, p) ==
    IF startsWith(p, S_slash) THEN Normalize(Split(p), <<>>)
    ELSE Normalize(Split(dir \o S_slash \o p), <<>>)

\* path.resolve(p): an absolute path without a trailing separator, '/' for the root.
pathResolve(dir, p) ==
    LET segments == ResolvedSegments(dir, p)
    IN IF segments = <<>> THEN S_slash ELSE JoinPath(segments)

\* path.extname(p): from the last '.' of the last segment, '' when it has none
\* or only a leading one.
extname(p) ==
    LET base == SubSeq(p, lastIndexOfChar(p, "/") + 1, Len(p))
        dot == lastIndexOfChar(base, ".")
    IN IF dot <= 1 THEN <<>> ELSE SubSeq(base, dot, Len(base))

\* The path-traversal test of lines 139-146: the file is let through.
InsideBase(resolvedPath, baseDir) ==
    startsWith(resolvedPath, baseDir \o S_slash) \/ resolvedPath = baseDir

\* validateFilePath(filePath, config): the resolved path, or the error thrown.
validateFilePath(filePath, config, dir, file) ==
    LET resolvedPath == pathResolve(dir, filePath)
        ext == toLowerCase(extname(resolvedPath))
    IN IF ext \notin config.allowedExtensions THEN Thrown("ExtensionNotAllowed")
       ELSE IF ~file.exists THEN Thrown("FileNotFound")
       ELSE IF ~file.isFile THEN Thrown("NotAFile")
       ELSE IF file.size > config.maxFileSize THEN Thrown("FileTooLarge")
       ELSE IF config.baseDirectory # <<>>
               /\ ~InsideBase(resolvedPath, pathResolve(dir, config.baseDirectory))
            THEN Thrown("PathTraversal")
       ELSE Returned(resolvedPath)

----------------------------------------------------------------------------
(* security.js: validateSwaggerSpec *)

\* The validation without the count of paths on lines 185-188.
validateSwaggerSpecAnyPaths(spec) ==
    IF ~spec.isObject THEN "InvalidSpec:object"
    ELSE IF ~spec.version THEN "InvalidSpec:version"
    ELSE IF ~spec.info.present THEN "InvalidSpec:info"
    ELSE IF ~spec.info.title THEN "InvalidSpec:info.title"
    ELSE IF ~spec.info.version THEN "InvalidSpec:info.version"
    ELSE IF ~spec.hasPaths THEN "InvalidSpec:paths"
    ELSE "ok"

\* validateSwaggerSpec(spec): "ok", or the error naming the first missing field.
validateSwaggerSpec(spec) ==
    IF ~spec.isObject THEN "InvalidSpec:object"
    ELSE IF ~spec.version THEN "InvalidSpec:version"
    ELSE IF ~spec.info.present THEN "InvalidSpec:info"
    ELSE IF ~spec.info.title THEN "InvalidSpec:info.title"
    ELSE IF ~spec.info.version THEN "InvalidSpec:info.version"
    ELSE IF ~spec.hasPaths THEN "InvalidSpec:paths"
    ELSE IF Len(spec.paths) = 0 THEN "InvalidSpec:paths.empty"
    ELSE "ok"

----------------------------------------------------------------------------
(* schema.js: extractParameters, buildInputSchema *)

Locations == <<"path", "query", "header", "cookie">>

\* paramSchema = { type: schema.type || 'string', ...schema }
ParamSchema(param) == [type |-> IF param.type = "" THEN "string" ELSE param.type]

RECURSIVE BucketOf(_, _)
\* parameters[location] after the loop over operation.parameters
BucketOf(params, location) ==
    IF params = <<>> THEN <<>>
    ELSE LET init == BucketOf(SubSeq(params, 1, Len(params) - 1), location)
             p == params[Len(params)]
         IN IF p.name # <<>> /\ p.in = location
            THEN Put(init, p.name, ParamSchema(p))
            ELSE init

\* required[location] after the loop over operation.parameters
RequiredOf(params, location) ==
    LET named == SelectSeq(params, LAMBDA p : p.name # <<>> /\ p.in = location /\ p.required)
    IN [i \in DOMAIN named |-> named[i].name]

\* Reading param.in of a null entry of operation.parameters throws a TypeError.
ParametersThrow(operation) == \E i \in DOMAIN operation.parameters : operation.parameters[i].isNull

HasJsonBody(operation) == operation.requestBody.present /\ operation.requestBody.json

\* The operation as extractParameters leaves it: with requestBody.required === true
\* it assigns parameters.body.required = true, and parameters.body is the schema
\* object of the operation itself.
OperationAfterExtract(operation) ==
    IF HasJsonBody(operation) /\ operation.requestBody.required
    THEN [operation EXCEPT !.requestBody.schema.required = [isTrue |-> TRUE, names |-> <<>>]]
    ELSE operation

\* extractParameters(operation): { parameters, required }
extractParameters(operation) ==
    [parameters |->
        [path |-> BucketOf(operation.parameters, "path"),
         query |-> BucketOf(operation.parameters, "query"),
         header |-> BucketOf(operation.parameters, "header"),
         cookie |-> BucketOf(operation.parameters, "cookie"),
         hasBody |-> HasJsonBody(operation),
         body |-> OperationAfterExtract(operation).requestBody.schema],
     required |->
        [path |-> RequiredOf(operation.parameters, "path"),
         query |-> RequiredOf(operation.parameters, "query"),
         header |-> RequiredOf(operation.parameters, "header"),
         cookie |-> RequiredOf(operation.parameters, "cookie")]]

\* One location's properties, each tagged with 'x-parameter-location'.
Tagged(bucket, location) ==
    [i \in DOMAIN bucket |->
        [key |-> bucket[i].key,
         value |-> [type |-> bucket[i].value.type, location |-> location,
                    required |-> [isTrue |-> FALSE, names |-> <<>>]]]]

\* A body property, or the whole body under _body, as a property of the input schema.
BodyProperty(type, required) == [type |-> type, location |-> "", required |-> required]

\* buildInputSchema(operation)
buildInputSchema(operation) ==
    LET ex == extractParameters(operation)
        P == ex.parameters
        R == ex.required
        paramProps == PutAll(PutAll(PutAll(Tagged(P.path, "path"), Tagged(P.query, "query")),
                                    Tagged(P.header, "header")), Tagged(P.cookie, "cookie"))
        paramReq == R.path \o R.query \o R.header \o R.cookie
        bodyProps == [i \in DOMAIN P.body.properties |->
                        [key |-> P.body.properties[i].key,
                         value |-> BodyProperty(P.body.properties[i].value.type,
                                                [isTrue |-> FALSE, names |-> <<>>])]]
        props == IF ~P.hasBody THEN paramProps
                 ELSE IF P.body.hasProperties THEN PutAll(paramProps, bodyProps)
                 ELSE IF P.body.type # ""
                      THEN Put(paramProps, <<"_","b","o","d","y">>,
                               BodyProperty(P.body.type, P.body.required))
                      ELSE paramProps
        req == IF ~P.hasBody THEN paramReq
               ELSE IF P.body.hasProperties
                    THEN IF P.body.required.isTrue THEN paramReq
                         ELSE paramReq \o P.body.required.names
               ELSE IF P.body.type # "" /\ P.body.required.isTrue
                    THEN Append(paramReq, <<"_","b","o","d","y">>)
                    ELSE paramReq
    IN [type |-> "object", properties |-> props, required |-> Dedupe(req),
        additionalProperties |-> FALSE]

----------------------------------------------------------------------------
(* The JSON-Schema validator (Ajv): compile and validate *)

JsonTypes == {"string", "integer", "number", "boolean", "object", "array", "null"}

\* ajv.compile(schema) throws on a schema that is not valid JSON Schema: a type
\* that is no JSON type, or a 'required' keyword that is not an array.
ajvCompileThrows(schema) ==
    \E i \in DOMAIN schema.properties :
        LET s == schema.properties[i].value
        IN \/ (s.type # "" /\ s.type \notin JsonTypes)
           \/ s.required.isTrue

\* An input value: [t, v] with t the JSON type and v its text.
TypeMatches(type, value) ==
    \/ type = ""
    \/ type = "string" /\ value.t = "string"
    \/ type \in {"integer", "number"} /\ value.t = "integer"

\* A validator that lets every input through.
validateAnything(schema, input) == TRUE

\* validate(input) of the validator compiled from schema
validate(schema, input) ==
    /\ \A i \in DOMAIN schema.required : Has(input, schema.required[i])
    /\ \A i \in DOMAIN input :
          /\ Has(schema.properties, input[i].key)
          /\ TypeMatches(Get(schema.properties, input[i].key).type, input[i].value)


----------------------------------------------------------------------------
(* Specification documents handed to the compiler *)

NoRequired == [isTrue |-> FALSE, names |-> <<>>]
NoBody == [present |-> FALSE, required |-> FALSE, json |-> FALSE,
           schema |-> [type |-> "", hasProperties |-> FALSE, properties |-> <<>>,
                       required |-> NoRequired, ref |-> <<>>]]

Param(in, name, required, type) ==
    [isNull |-> FALSE, in |-> in, name |-> name, required |-> required, type |-> type]
NullParam == [isNull |-> TRUE, in |-> "", name |-> <<>>, required |-> FALSE, type |-> ""]

Operation(operationId, parameters, requestBody) ==
    [isNull |-> FALSE, operationId |-> operationId, parameters |-> parameters,
     requestBody |-> requestBody]
\* A method key whose value is null (an empty YAML entry).
NullOperation == [isNull |-> TRUE, operationId |-> <<>>, parameters |-> <<>>,
                  requestBody |-> NoBody]

S_get == <<"g","e","t">>
S_GET == <<"G","E","T">>
S_post == <<"p","o","s","t">>
S_parameters == <<"p","a","r","a","m","e","t","e","r","s">>
S_x == <<"x">>
S_id == <<"i","d">>
R_a == <<"/","a">>
R_a_x == <<"/","a"," ","(","x",")">>

\* The keys the compiler takes for operations (line 220).
HttpVerbs == {S_get, S_post, <<"p","u","t">>, <<"p","a","t","c","h">>,
              <<"d","e","l","e","t","e">>, <<"o","p","t","i","o","n","s">>,
              <<"h","e","a","d">>}

\* Operations of the compiled documents: without and with an operationId, one
\* whose parameter schema has an invalid type (the validator's compile throws),
\* one with a null parameter entry (buildInputSchema throws), and a null entry.
CompileOperations ==
    {Operation(<<>>, <<>>, NoBody),
     Operation(S_x, <<>>, NoBody),
     Operation(<<>>, <<Param("query", S_id, FALSE, "strin")>>, NoBody),
     NullOperation}

CompileKeys == {S_get, S_GET, S_parameters}
CompileRoutes == {R_a, R_a_x}

\* A path item's shared 'parameters' block: a list of parameters under a key
\* that is no HTTP verb.
SharedParameters(parameters) == Operation(<<>>, parameters, NoBody)

\* The [key, value] entries of the path items: an operation under a verb, a
\* parameter list under 'parameters'.
CompileEntries ==
    {[key |-> k, value |-> o] : k \in CompileKeys \ {S_parameters}, o \in CompileOperations}
    \cup {[key |-> S_parameters, value |-> SharedParameters(<<>>)]}

\* MaxOperations bounds the entries of one document, over all its paths;
\* MaxPaths bounds its paths.
MaxOperations == 3
MaxPaths == 2

\* The path items with exactly n entries: distinct keys, in any order.
MethodsOfLen(n) ==
    {m \in [1..n -> CompileEntries] : \A i, j \in 1..n : i # j => m[i].key # m[j].key}

PathItem(methods) == [isNull |-> FALSE, methods |-> methods]
NullPathItem == [isNull |-> TRUE, methods |-> <<>>]

PathItemsUpTo(n) ==
    {NullPathItem} \cup UNION {{PathItem(m) : m \in MethodsOfLen(k)} : k \in 0..n}

RECURSIVE EntryCount(_)
\* The entries of a paths object, over all its path items.
EntryCount(paths) ==
    IF paths = <<>> THEN 0
    ELSE Len(Head(paths).value.methods) + EntryCount(Tail(paths))

RECURSIVE PathsOfLen(_)
\* The paths objects with exactly n routes and at most MaxOperations entries.
PathsOfLen(n) ==
    IF n = 0 THEN {<<>>}
    ELSE UNION {
           {Append(rest, [key |-> r, value |-> item]) :
              r \in {q \in CompileRoutes : ~Has(rest, q)},
              item \in PathItemsUpTo(MaxOperations - EntryCount(rest))}
           : rest \in PathsOfLen(n - 1)}

CompilePaths == UNION {PathsOfLen(n) : n \in 0..MaxPaths}

S_https_h == <<"h","t","t","p","s",":","/","/","h">>
S_h == <<"h">>

Document(servers, host, paths) ==
    [isObject |-> TRUE, version |-> TRUE,
     info |-> [present |-> TRUE, title |-> TRUE, version |-> TRUE],
     servers |-> servers, host |-> host, schemes |-> <<>>, basePath |-> <<>>,
     hasPaths |-> TRUE, paths |-> paths]

\* Documents with an OpenAPI 3 servers list, with a Swagger 2 host, and with neither.
CompileDocuments ==
    {Document(<<S_https_h>>, <<>>, p) : p \in CompilePaths}
    \cup {Document(<<>>, S_h, p) : p \in PathsOfLen(1)}
    \cup {Document(<<>>, <<>>, p) : p \in PathsOfLen(1)}

DefaultPort == 4000
CompileOptions ==
    {[manifestOnly |-> m, port |-> DefaultPort] : m \in BOOLEAN}
    \cup {[manifestOnly |-> FALSE, port |-> MaxPort + 1]}

----------------------------------------------------------------------------
(* Inputs of the security gate and of the loader *)

S_http == <<"h","t","t","p">>
S_https == <<"h","t","t","p","s">>
S_api_example_com == <<"a","p","i",".","e","x","a","m","p","l","e",".","c","o","m">>
S_wild_example_com == <<"*",".","e","x","a","m","p","l","e",".","c","o","m">>
S_10_0_0_5 == <<"1","0",".","0",".","0",".","5">>
S_allowed == <<"/","a","l","l","o","w","e","d">>

\* maxFileSize: 10 * 1024 * 1024
MaxFileSize == 10485760

\* defaultSecurityConfig
defaultSecurityConfig ==
    [allowedSchemes |-> {S_https},
     allowedHosts |-> <<>>,
     blockPrivateIPs |-> TRUE,
     allowedExtensions |-> {<<".","y","a","m","l">>, <<".","y","m","l">>, <<".","j","s","o","n">>},
     baseDirectory |-> <<>>,
     maxFileSize |-> MaxFileSize]

UrlStrings ==
    {<<"h","t","t","p","s",":","/","/","a","p","i",".","e","x","a","m","p","l","e",".","c","o","m","/","s","p","e","c",".","j","s","o","n">>,
     <<"h","t","t","p",":","/","/","1","2","7",".","0",".","0",".","1","/","s","p","e","c",".","j","s","o","n">>,
     <<"h","t","t","p","s",":","/","/","1","2","7",".","0",".","0",".","1","/","s","p","e","c",".","j","s","o","n">>,
     <<"h","t","t","p","s",":","/","/","1","0",".","0",".","0",".","5","/","s">>,
     <<"h","t","t","p","s",":","/","/","1","7","2",".","1","6",".","0",".","1","/","s">>,
     <<"h","t","t","p","s",":","/","/","1","7","2",".","3","1",".","9",".","9","/","s">>,
     <<"h","t","t","p","s",":","/","/","1","7","2",".","3","2",".","0",".","1","/","s">>,
     <<"h","t","t","p","s",":","/","/","1","7","2",".","1","5",".","0",".","1","/","s">>,
     <<"h","t","t","p","s",":","/","/","1","9","2",".","1","6","8",".","1",".","1","/","s">>,
     <<"h","t","t","p","s",":","/","/","1","6","9",".","2","5","4",".","1","6","9",".","2","5","4","/","s">>,
     <<"h","t","t","p","s",":","/","/","8",".","8",".","8",".","8","/","s">>,
     <<"h","t","t","p","s",":","/","/","[",":",":","1","]","/","s","p","e","c",".","j","s","o","n">>,
     <<"h","t","t","p","s",":","/","/","[","f","e","8","0",":",":","1","]","/","s">>,
     <<"h","t","t","p","s",":","/","/","[","f","c","0","0",":",":","1","]","/","s">>,
     <<"h","t","t","p","s",":","/","/","[","f","d","0","0",":",":","1","]","/","s">>,
     <<"h","t","t","p","s",":","/","/","[","2","0","0","1",":","d","b","8",":",":","1","]","/","s">>,
     <<"h","t","t","p","s",":","/","/","e","x","a","m","p","l","e",".","c","o","m","/","s">>,
     <<"h","t","t","p","s",":","/","/","e","v","i","l","e","x","a","m","p","l","e",".","c","o","m","/","s">>,
     <<"h","t","t","p","s",":","/","/","a",".","e","x","a","m","p","l","e",".","c","o","m","/","s">>,
     <<"h","t","t","p","s",":","/","/","A","P","I",".","E","x","a","m","p","l","e",".","c","o","m","/","s">>,
     <<"f","t","p",":","/","/","e","x","a","m","p","l","e",".","c","o","m","/","s">>,
     <<"n","o","t"," ","a"," ","u","r","l">>,
     <<"h","t","t","p","s",":","/","/","u","s","e","r","@","1","0",".","0",".","0",".","5",":","8","4","4","3","/","s">>,
     <<"h","t","t","p",":","/","/","a",".","e","x","a","m","p","l","e",".","c","o","m","/","s">>}

UrlConfigs ==
    {[defaultSecurityConfig EXCEPT !.allowedSchemes = s, !.allowedHosts = h,
                                   !.blockPrivateIPs = b] :
        s \in {{S_https}, {S_http, S_https}},
        h \in {<<>>, <<S_api_example_com>>, <<S_wild_example_com>>,
               <<S_wild_example_com, S_10_0_0_5>>},
        b \in BOOLEAN}

FilePaths ==
    {<<"x",".","y","a","m","l">>,
     <<".",".","/","e","s","c","a","p","e",".","y","a","m","l">>,
     <<"/","a","l","l","o","w","e","d","/","x",".","y","a","m","l">>,
     <<"/","a","l","l","o","w","e","d","-","e","v","i","l","/","x",".","y","a","m","l">>,
     <<"/","a","l","l","o","w","e","d","/","s","u","b","/","x",".","j","s","o","n">>,
     <<"/","a","l","l","o","w","e","d","/",".",".","/","e","t","c","/","x",".","y","a","m","l">>,
     <<"/","x",".","y","a","m","l">>,
     <<"/","a","l","l","o","w","e","d","/","x",".","t","x","t">>,
     <<"/","a","l","l","o","w","e","d","/","X",".","Y","A","M","L">>,
     <<"s","u","b","/",".",".","/","x",".","y","m","l">>,
     <<"/","a","l","l","o","w","e","d">>,
     <<".","/","s","u","b","/","x",".","j","s","o","n">>}

WorkingDirectories == {S_allowed, <<"/","a","l","l","o","w","e","d","/","s","u","b">>, <<"/","w","o","r","k">>}

\* config.baseDirectory: null (<<>>), absolute, with a trailing separator, the
\* root, and relative to the working directory.
BaseDirectories == {<<>>, S_allowed, <<"/","a","l","l","o","w","e","d","/">>, <<"/">>, <<"s","u","b">>}

PathConfigs == {[defaultSecurityConfig EXCEPT !.baseDirectory = b] : b \in BaseDirectories}

\* What the file system holds at a path: nothing, a directory, a file within
\* the size limit, a file beyond it.
DiskEntries ==
    {[exists |-> FALSE, isFile |-> FALSE, size |-> 0],
     [exists |-> TRUE, isFile |-> FALSE, size |-> 0],
     [exists |-> TRUE, isFile |-> TRUE, size |-> 100],
     [exists |-> TRUE, isFile |-> TRUE, size |-> MaxFileSize + 1]}

NoDisk == [exists |-> FALSE, isFile |-> FALSE, size |-> 0]
NoDocument == [Document(<<>>, <<>>, <<>>) EXCEPT !.isObject = FALSE]
NoContent == [format |-> "text", doc |-> NoDocument]

NoValue == [t |-> "undefined", v |-> <<>>]
NoRequest == [method |-> <<>>, url |-> <<>>, headers |-> <<>>, hasParams |-> FALSE,
              params |-> <<>>, hasData |-> FALSE, verbatim |-> FALSE, body |-> NoValue,
              data |-> <<>>, timeout |-> 0, hasMaxContentLength |-> FALSE]

NoOutcome == [status |-> "none", cause |-> "", label |-> "", inner |-> "", text |-> <<>>]

RequestIdle ==
    /\ call = [operation |-> NullOperation, method |-> <<>>, route |-> <<>>,
               baseUrl |-> <<>>, input |-> <<>>]
    /\ callPc = "idle"
    /\ request = NoRequest
    /\ outcome = NoOutcome
    /\ dispatched = 0

SchemaIdle ==
    /\ schemaArgs = <<>>
    /\ schemaResult = <<>>
    /\ schemaPc = "idle"

ServerIdle ==
    /\ serverState = "none"
    /\ inFlight = 0
    /\ accepted = 0
    /\ signalsSeen = 0
    /\ timers = 0
    /\ processState = "running"

PoolIdle ==
    /\ toolTable = <<>>
    /\ invocations = <<>>
    /\ validateErrors = <<>>

RuntimeIdle == SchemaIdle /\ ServerIdle /\ PoolIdle

LoadIdle ==
    /\ source = <<>>
    /\ securityConfig = defaultSecurityConfig
    /\ cwd = S_slash
    /\ disk = NoDisk
    /\ content = NoContent
    /\ loadPc = "idle"
    /\ validated = NotCalled
    /\ fetches = 0
    /\ reads = 0
    /\ loaded = [status |-> "none", error |-> "", spec |-> NoDocument]

----------------------------------------------------------------------------
(* swagger-to-mcp.js: getBaseUrl, createMCPFromSwagger *)

\* getBaseUrl(spec); '' is <<>>.
getBaseUrl(spec) ==
    IF Len(spec.servers) > 0 THEN spec.servers[1]
    ELSE IF spec.host # <<>>
         THEN (IF Len(spec.schemes) > 0 THEN spec.schemes[1] ELSE <<"h","t","t","p","s">>)
              \o <<":","/","/">> \o spec.host \o spec.basePath
         ELSE <<>>

\* swagger.paths || {}
PathsOf(spec) == IF spec.hasPaths THEN spec.paths ELSE <<>>

\* The verb test without toLowerCase: keys such as 'GET' would be skipped.
IsOperationKeyCaseSensitive(method) == method \in HttpVerbs

IsOperationKey(method) == toLowerCase(method) \in HttpVerbs

\* operation.operationId || `${method}_${route.replace(/[\/{}]/g, '_')}`
OperationIdOf(operation, method, route) ==
    IF operation.operationId # <<>> THEN operation.operationId
    ELSE method \o <<"_">> \o replaceChars(route, {"/", "{", "}"}, "_")

\* The name under which the operation is registered, given its sanitized base
\* name: `${toolName} (${operationId})` when the run already holds the base name.
DisambiguatedName(baseName, operationId, registered) ==
    IF baseName \in registered
    THEN baseName \o <<" ", "(">> \o operationId \o <<")">>
    ELSE baseName

Failed(stage, name, registered) ==
    [status |-> "failed", stage |-> stage, name |-> name, registered |-> registered]

\* The body of the try block for one operation (lines 224-310): what it did to
\* the name set and whether it reached registerTool and the manifest, or threw
\* and where.
CompileOutcome(route, method, operation, registered, hostNames, rejects) ==
    IF operation.isNull THEN Failed("operation", <<>>, registered)
    ELSE LET sanitized == sanitizeToolName(toUpperCase(method) \o <<" ">> \o route)
             toolName == DisambiguatedName(sanitized.value,
                                           OperationIdOf(operation, method, route), registered)
             added == registered \cup {toolName}
         IN IF ~sanitized.ok THEN Failed("name", <<>>, registered)
            ELSE IF ParametersThrow(operation) THEN Failed("schema", toolName, added)
            ELSE IF ajvCompileThrows(buildInputSchema(operation))
                 THEN Failed("validator", toolName, added)
            ELSE IF rejects /\ toolName \in hostNames THEN Failed("register", toolName, added)
            ELSE [status |-> "registered", stage |-> "done", name |-> toolName,
                  registered |-> added]

\* A catch block that gives up the run at the first operation that fails.
PcAfterOperationAborting(status) == IF status = "failed" THEN "done" ELSE "loop"

\* Lines 311-314: the catch block logs the failure and the loop goes on.
PcAfterOperation(status) == "loop"

\* The return without the check of the tool count: an empty server.
ReturnValueUnchecked(manifestOnly, count) == IF manifestOnly THEN "null" ELSE "server"

\* Lines 326-335: what the run returns, or the error it throws.
ReturnValue(manifestOnly, count) ==
    IF manifestOnly THEN "null"
    ELSE IF count = 0 THEN "NoToolsRegistered"
    ELSE "server"

CurrentItem == PathsOf(swagger)[pathIdx].value
CurrentRoute == PathsOf(swagger)[pathIdx].key
CurrentEntry == CurrentItem.methods[methodIdx]

HostNames == {serverTools[i].name : i \in DOMAIN serverTools}

\* Lines 181-215: the port, the server, the base URL, the empty manifest.
CreateStart ==
    /\ pc = "start"
    /\ IF ~validatePort(options.port)
       THEN pc' = "done" /\ result' = "InvalidPort"
       ELSE IF getBaseUrl(swagger) = <<>>
            THEN pc' = "done" /\ result' = "NoBaseUrl"
            ELSE pc' = "loop" /\ result' = "running"
    /\ UNCHANGED <<swagger, options, hostRejectsDuplicates, pathIdx, methodIdx,
                   registeredTools, serverTools, manifest, toolCount, manifestFile, trail, loadVars, requestVars, schemaVars, serverVars, poolVars>>

\* Line 218 on a path item that is null: Object.entries(null) throws outside the
\* try block, and the whole run ends with that error.
PathItemThrows ==
    /\ pc = "loop"
    /\ pathIdx <= Len(PathsOf(swagger))
    /\ CurrentItem.isNull
    /\ pc' = "done"
    /\ result' = "TypeError"
    /\ UNCHANGED <<swagger, options, hostRejectsDuplicates, pathIdx, methodIdx,
                   registeredTools, serverTools, manifest, toolCount, manifestFile, trail, loadVars, requestVars, schemaVars, serverVars, poolVars>>

\* Line 217: the entries of one path item are exhausted; on to the next route.
NextPath ==
    /\ pc = "loop"
    /\ pathIdx <= Len(PathsOf(swagger))
    /\ ~CurrentItem.isNull
    /\ methodIdx > Len(CurrentItem.methods)
    /\ pathIdx' = pathIdx + 1
    /\ methodIdx' = 1
    /\ UNCHANGED <<swagger, options, hostRejectsDuplicates, pc, registeredTools,
                   serverTools, manifest, toolCount, manifestFile, result, trail, loadVars, requestVars, schemaVars, serverVars, poolVars>>

\* Lines 219-222: a key that is no HTTP verb is skipped.
SkipNonOperation ==
    /\ pc = "loop"
    /\ pathIdx <= Len(PathsOf(swagger))
    /\ ~CurrentItem.isNull
    /\ methodIdx <= Len(CurrentItem.methods)
    /\ ~IsOperationKey(CurrentEntry.key)
    /\ methodIdx' = methodIdx + 1
    /\ trail' = Append(trail, [path |-> pathIdx, method |-> methodIdx,
                               status |-> "skipped", stage |-> "verb", name |-> <<>>])
    /\ UNCHANGED <<swagger, options, hostRejectsDuplicates, pc, pathIdx, registeredTools,
                   serverTools, manifest, toolCount, manifestFile, result, loadVars, requestVars, schemaVars, serverVars, poolVars>>

\* Lines 224-314: one operation, registered or caught and logged.
CompileOperation ==
    /\ pc = "loop"
    /\ pathIdx <= Len(PathsOf(swagger))
    /\ ~CurrentItem.isNull
    /\ methodIdx <= Len(CurrentItem.methods)
    /\ IsOperationKey(CurrentEntry.key)
    /\ LET method == CurrentEntry.key
           operation == CurrentEntry.value
           out == CompileOutcome(CurrentRoute, method, operation, registeredTools,
                                 HostNames, hostRejectsDuplicates)
           ran == out.stage \in {"validator", "register", "done"}
       IN /\ registeredTools' = out.registered
          /\ swagger' = IF ran
                        THEN [swagger EXCEPT !.paths[pathIdx].value.methods[methodIdx].value =
                                 OperationAfterExtract(operation)]
                        ELSE swagger
          /\ IF out.status = "registered"
             THEN /\ serverTools' = Append(serverTools,
                        [name |-> out.name, route |-> CurrentRoute, method |-> method,
                         path |-> pathIdx, entry |-> methodIdx])
                  /\ manifest' = Append(manifest,
                        [name |-> out.name,
                         description |-> OperationIdOf(operation, method, CurrentRoute),
                         method |-> toUpperCase(method), path |-> CurrentRoute])
                  /\ toolCount' = toolCount + 1
             ELSE UNCHANGED <<serverTools, manifest, toolCount>>
          /\ trail' = Append(trail, [path |-> pathIdx, method |-> methodIdx,
                                     status |-> out.status, stage |-> out.stage,
                                     name |-> out.name])
          /\ pc' = PcAfterOperation(out.status)
    /\ methodIdx' = methodIdx + 1
    /\ UNCHANGED <<options, hostRejectsDuplicates, pathIdx, manifestFile, result, loadVars, requestVars, schemaVars, serverVars, poolVars>>

\* Lines 318-335: mcp.json is written (a failure to write is caught and logged),
\* then manifest-only returns null, an empty tool table throws, else the server.
Finish ==
    /\ pc = "loop"
    /\ pathIdx > Len(PathsOf(swagger))
    /\ \E written \in BOOLEAN :
          manifestFile' = IF written THEN [written |-> TRUE, tools |-> manifest]
                          ELSE manifestFile
    /\ result' = ReturnValue(options.manifestOnly, toolCount)
    /\ pc' = "done"
    /\ UNCHANGED <<swagger, options, hostRejectsDuplicates, pathIdx, methodIdx,
                   registeredTools, serverTools, manifest, toolCount, trail, loadVars, requestVars, schemaVars, serverVars, poolVars>>

CompileIdle ==
    /\ pathIdx = 1
    /\ methodIdx = 1
    /\ registeredTools = {}
    /\ serverTools = <<>>
    /\ manifest = <<>>
    /\ toolCount = 0
    /\ manifestFile = [written |-> FALSE, tools |-> <<>>]
    /\ result = "none"
    /\ trail = <<>>

InitCompile ==
    /\ swagger \in CompileDocuments
    /\ options \in CompileOptions
    /\ hostRejectsDuplicates \in BOOLEAN
    /\ pc = "start"
    /\ CompileIdle
    /\ LoadIdle
    /\ RequestIdle
    /\ RuntimeIdle

NextCompile ==
    \/ CreateStart
    \/ PathItemThrows
    \/ NextPath
    \/ SkipNonOperation
    \/ CompileOperation
    \/ Finish

SpecCompile == InitCompile /\ [][NextCompile]_vars

----------------------------------------------------------------------------
(* Claims about the tool compiler *)

\* The positions (path index, entry index) of the entries under an HTTP verb.
OperationPositions(spec) ==
    {pos \in (DOMAIN PathsOf(spec)) \X (1..MaxOperations + 1) :
        /\ ~PathsOf(spec)[pos[1]].value.isNull
        /\ pos[2] <= Len(PathsOf(spec)[pos[1]].value.methods)
        /\ toLowerCase(PathsOf(spec)[pos[1]].value.methods[pos[2]].key) \in HttpVerbs}

EntryAt(spec, pos) == PathsOf(spec)[pos[1]].value.methods[pos[2]]
RouteAt(spec, pos) == PathsOf(spec)[pos[1]].key

\* The operation cannot be compiled: a null entry, a parameter list that makes
\* the schema build throw, a schema the validator refuses.
Broken(operation) ==
    \/ operation.isNull
    \/ ParametersThrow(operation)
    \/ ajvCompileThrows(buildInputSchema(operation))

\* `METHOD ROUTE` after sanitization, the name before any disambiguation.
BaseName(spec, pos) ==
    sanitizeToolName(toUpperCase(EntryAt(spec, pos).key) \o <<" ">> \o RouteAt(spec, pos)).value

\* The run got past the port and the base URL and walked every path item.
LoopCompleted ==
    /\ pc = "done"
    /\ validatePort(options.port)
    /\ getBaseUrl(swagger) # <<>>
    /\ \A i \in DOMAIN PathsOf(swagger) : ~PathsOf(swagger)[i].value.isNull

ValidDocument(spec) == \A pos \in OperationPositions(spec) : ~Broken(EntryAt(spec, pos).value)

NoNameCollisions(spec) ==
    \A p, q \in OperationPositions(spec) : p # q => BaseName(spec, p) # BaseName(spec, q)

RegisteredFrom(pos) ==
    {i \in DOMAIN serverTools : serverTools[i].path = pos[1] /\ serverTools[i].entry = pos[2]}

Distinct(seq) == \A i, j \in DOMAIN seq : i # j => seq[i].name # seq[j].name

\* C1: in every state of a compile run the names of the registered tools, and of
\* the manifest entries, are pairwise distinct and non-empty.
C1_ToolNamesUnique ==
    /\ Distinct(manifest)
    /\ Distinct(serverTools)
    /\ \A i \in DOMAIN manifest : manifest[i].name # <<>>
    /\ \A i \in DOMAIN serverTools : serverTools[i].name # <<>>

\* C2: a run that walked a valid document with N operations and no two equal
\* base names ends with exactly N tool records and N manifest entries, one per
\* operation, with N distinct names.
C2_OneToolPerOperation ==
    (LoopCompleted /\ ValidDocument(swagger) /\ NoNameCollisions(swagger)) =>
        LET N == Cardinality(OperationPositions(swagger))
        IN /\ toolCount = N
           /\ Len(serverTools) = N
           /\ Len(manifest) = N
           /\ Cardinality({manifest[i].name : i \in DOMAIN manifest}) = N
           /\ \A pos \in OperationPositions(swagger) :
                 \E i \in RegisteredFrom(pos) :
                    /\ manifest[i].name = BaseName(swagger, pos)
                    /\ manifest[i].path = RouteAt(swagger, pos)
                    /\ manifest[i].method = toUpperCase(EntryAt(swagger, pos).key)

\* A valid document with two operations, one of them under an upper-case key,
\* and a skipped 'parameters' entry has been compiled to two tools.
C2_Witness ==
    /\ LoopCompleted /\ ValidDocument(swagger) /\ NoNameCollisions(swagger)
    /\ Cardinality(OperationPositions(swagger)) = 2
    /\ \E pos \in OperationPositions(swagger) : EntryAt(swagger, pos).key = S_GET
    /\ \E i \in DOMAIN trail : trail[i].status = "skipped"
    /\ toolCount = 2
    /\ result = "server"

C4_FailureIsPerOperation ==
    LoopCompleted =>
        /\ Len(manifest) = Len(serverTools)
        /\ \A pos \in OperationPositions(swagger) :
              IF Broken(EntryAt(swagger, pos).value)
              THEN /\ RegisteredFrom(pos) = {}
                   /\ \E i \in DOMAIN trail :
                         /\ trail[i].path = pos[1] /\ trail[i].method = pos[2]
                         /\ trail[i].status = "failed"
              ELSE \/ Cardinality(RegisteredFrom(pos)) = 1
                   \/ /\ hostRejectsDuplicates
                      /\ \E i \in DOMAIN trail :
                            /\ trail[i].path = pos[1] /\ trail[i].method = pos[2]
                            /\ trail[i].stage = "register"

\* An operation failed and an operation after it was registered.
C4_Witness ==
    /\ LoopCompleted
    /\ \E i, j \in DOMAIN trail :
          /\ i < j
          /\ trail[i].status = "failed"
          /\ trail[j].status = "registered"
    /\ \E i \in DOMAIN trail : trail[i].stage = "validator"
    /\ \E i \in DOMAIN trail : trail[i].stage = "operation"

\* C28: an operation that fails after its name was derived leaves the name
\* set, the tool table, the manifest and the tool count as they were.
C28_FailedOperationLeavesNoTrace ==
    [][(/\ Len(trail') = Len(trail) + 1
        /\ trail'[Len(trail')].status = "failed"
        /\ trail'[Len(trail')].name # <<>>)
       => /\ registeredTools' = registeredTools
          /\ serverTools' = serverTools
          /\ manifest' = manifest
          /\ toolCount' = toolCount]_vars

\* Operations with and without an operationId; the id holds a tab.
NameOperations ==
    {Operation(<<>>, <<>>, NoBody), Operation(<<"i", "\t", "d">>, <<>>, NoBody)}

NameEntries ==
    {[key |-> k, value |-> o] : k \in {S_get, S_GET}, o \in NameOperations}
    \cup {[key |-> S_parameters, value |-> SharedParameters(<<>>)]}

\* The path items of up to three entries with distinct keys, and the null item.
NameItems ==
    {NullPathItem}
    \cup UNION {{PathItem(m) :
                   m \in {n \in [1..k -> NameEntries] :
                             \A i, j \in 1..k : i # j => n[i].key # n[j].key}} :
                k \in 0..3}

\* A compile run over one route whose path item holds the same verb in two
\* spellings.
InitNames ==
    /\ swagger \in {Document(<<S_https_h>>, <<>>, <<[key |-> R_a, value |-> item]>>) :
                       item \in NameItems}
    /\ options \in CompileOptions
    /\ hostRejectsDuplicates \in BOOLEAN
    /\ pc = "start"
    /\ CompileIdle
    /\ LoadIdle
    /\ RequestIdle
    /\ RuntimeIdle

SpecNames == InitNames /\ [][NextCompile]_vars

\* C29: every name in the tool table and in the manifest is non-empty, at most
\* 200 characters long and free of control characters.
C29_RegisteredNamesSanitized ==
    LET Sanitized(name) ==
            /\ name # <<>>
            /\ Len(name) <= MaxToolNameLength
            /\ \A i \in DOMAIN name : name[i] \notin ControlChars
    IN /\ \A i \in DOMAIN serverTools : Sanitized(serverTools[i].name)
       /\ \A i \in DOMAIN manifest : Sanitized(manifest[i].name)

----------------------------------------------------------------------------
(* The security gate called on its own: validateURL, validateFilePath *)

CompileNotStarted ==
    /\ swagger = NoDocument
    /\ options = [manifestOnly |-> FALSE, port |-> DefaultPort]
    /\ hostRejectsDuplicates = FALSE
    /\ pc = "idle"
    /\ CompileIdle

InitURL ==
    /\ source \in UrlStrings
    /\ securityConfig \in UrlConfigs
    /\ cwd = S_slash
    /\ disk = NoDisk
    /\ content = NoContent
    /\ loadPc = "gate"
    /\ validated = NotCalled
    /\ fetches = 0
    /\ reads = 0
    /\ loaded = [status |-> "none", error |-> "", spec |-> NoDocument]
    /\ CompileNotStarted
    /\ RequestIdle
    /\ RuntimeIdle

CallValidateURL ==
    /\ loadPc = "gate"
    /\ validated' = validateURL(source, securityConfig)
    /\ loadPc' = "returned"
    /\ UNCHANGED <<source, securityConfig, cwd, disk, content, fetches, reads, loaded,
                   compileVars, requestVars, schemaVars, serverVars, poolVars>>

SpecURL == InitURL /\ [][CallValidateURL]_vars

InitPath ==
    /\ source \in FilePaths
    /\ securityConfig \in PathConfigs
    /\ cwd \in WorkingDirectories
    /\ disk \in DiskEntries
    /\ content = NoContent
    /\ loadPc = "gate"
    /\ validated = NotCalled
    /\ fetches = 0
    /\ reads = 0
    /\ loaded = [status |-> "none", error |-> "", spec |-> NoDocument]
    /\ CompileNotStarted
    /\ RequestIdle
    /\ RuntimeIdle

CallValidateFilePath ==
    /\ loadPc = "gate"
    /\ validated' = validateFilePath(source, securityConfig, cwd, disk)
    /\ loadPc' = "returned"
    /\ UNCHANGED <<source, securityConfig, cwd, disk, content, fetches, reads, loaded,
                   compileVars, requestVars, schemaVars, serverVars, poolVars>>

SpecPath == InitPath /\ [][CallValidateFilePath]_vars

----------------------------------------------------------------------------
(* Claims about validateURL *)

\* The address a hostname stands for: an IPv6 literal without its brackets.
AddressOf(hostname) ==
    IF hostname # <<>> /\ hostname[1] = "[" THEN SubSeq(hostname, 2, Len(hostname) - 1)
    ELSE hostname

\* The loopback, private and link-local addresses the specification lists:
\* 127/8, 10/8, 172.16/12, 192.168/16, 169.254/16, ::1, fe80:, fc00:, fd00:.
ListedPrivateAddress(address) ==
    \/ startsWith(address, <<"1", "2", "7", ".">>)
    \/ startsWith(address, <<"1", "0", ".">>)
    \/ /\ startsWith(address, <<"1", "7", "2", ".">>)
       /\ Len(address) >= 7
       /\ <<address[5], address[6]>> \in
             {<<"1", "6">>, <<"1", "7">>, <<"1", "8">>, <<"1", "9">>} \cup
             {<<"2", d>> : d \in Digits} \cup {<<"3", "0">>, <<"3", "1">>}
       /\ address[7] = "."
    \/ startsWith(address, <<"1", "9", "2", ".", "1", "6", "8", ".">>)
    \/ startsWith(address, <<"1", "6", "9", ".", "2", "5", "4", ".">>)
    \/ address = <<":", ":", "1">>
    \/ startsWith(address, <<"f", "e", "8", "0", ":">>)
    \/ startsWith(address, <<"f", "c", "0", "0", ":">>)
    \/ startsWith(address, <<"f", "d", "0", "0", ":">>)

SchemeOf(parsed) == SubSeq(parsed.protocol, 1, Len(parsed.protocol) - 1)

\* C7: with blockPrivateIPs set, a URL whose host is a listed loopback, private
\* or link-local address (IPv4 or IPv6) is rejected, and with PrivateIPBlocked
\* whenever its scheme and host pass the two earlier checks.
C7_PrivateHostsBlocked ==
    LET parsed == ParseURL(source)
    IN (/\ loadPc = "returned"
        /\ securityConfig.blockPrivateIPs
        /\ parsed.ok
        /\ ListedPrivateAddress(AddressOf(parsed.hostname)))
       => /\ validated.status # "ok"
          /\ (/\ SchemeOf(parsed) \in securityConfig.allowedSchemes
              /\ Len(securityConfig.allowedHosts) = 0)
             => validated.status = "PrivateIPBlocked"

\* The allowlist as C8 states it: the hostname equals an entry, or an entry
\* '*.domain' and the hostname ends with '.domain'.
AdmittedAsStated(hostname, allowedHosts) ==
    \E i \in DOMAIN allowedHosts :
        \/ hostname = allowedHosts[i]
        \/ /\ startsWith(allowedHosts[i], <<"*", ".">>)
           /\ endsWith(hostname, SubSeq(allowedHosts[i], 2, Len(allowedHosts[i])))

\* The allowlist with the bare domain of a '*.domain' entry admitted too.
AdmittedWithBareDomain(hostname, allowedHosts) ==
    \/ AdmittedAsStated(hostname, allowedHosts)
    \/ \E i \in DOMAIN allowedHosts :
          /\ startsWith(allowedHosts[i], <<"*", ".">>)
          /\ hostname = SubSeq(allowedHosts[i], 3, Len(allowedHosts[i]))

\* The outcome the ordered checks parse, scheme, allowlist, private IP give.
OrderedOutcome(parsed, config, admitted) ==
    IF ~parsed.ok THEN "InvalidURL"
    ELSE IF SchemeOf(parsed) \notin config.allowedSchemes THEN "SchemeNotAllowed"
    ELSE IF Len(config.allowedHosts) > 0 /\ ~admitted THEN "HostNotAllowed"
    ELSE IF config.blockPrivateIPs /\ isPrivateIP(parsed.hostname) THEN "PrivateIPBlocked"
    ELSE "ok"

\* C8 as stated: validateURL fails with the error of the first failing check of
\* parse, scheme, allowlist, private IP and returns the parsed URL when all
\* pass, a non-empty allowlist admitting only a hostname that equals an entry or
\* matches the '.domain' suffix of a '*.domain' entry.
C8_OrderedChecksAsStated ==
    loadPc = "returned" =>
        LET parsed == ParseURL(source)
        IN /\ validated.status =
                OrderedOutcome(parsed, securityConfig,
                               AdmittedAsStated(parsed.hostname, securityConfig.allowedHosts))
           /\ validated.status = "ok" => validated.value = parsed

\* C8 amended: the same, with a '*.domain' entry admitting the bare domain too.
C8_OrderedChecks ==
    loadPc = "returned" =>
        LET parsed == ParseURL(source)
        IN /\ validated.status =
                OrderedOutcome(parsed, securityConfig,
                               AdmittedWithBareDomain(parsed.hostname,
                                                      securityConfig.allowedHosts))
           /\ validated.status = "ok" => validated.value = parsed

\* A private address outside a configured allowlist fails on the allowlist,
\* the earlier check.
C8_Witness ==
    /\ loadPc = "returned"
    /\ source = <<"h","t","t","p","s",":","/","/","1","2","7",".","0",".","0",".","1","/","s","p","e","c",".","j","s","o","n">>
    /\ securityConfig.blockPrivateIPs
    /\ securityConfig.allowedHosts = <<S_api_example_com>>
    /\ validated.status = "HostNotAllowed"

----------------------------------------------------------------------------
(* Claims about validateFilePath *)

\* The resolved path is the base directory or lies below it, segment by segment.
WithinBase(segments, base) ==
    Len(base) <= Len(segments) /\ SubSeq(segments, 1, Len(base)) = base

\* Everything validateFilePath checks before the base directory passes.
FileAcceptable ==
    /\ toLowerCase(extname(pathResolve(cwd, source))) \in securityConfig.allowedExtensions
    /\ disk.exists
    /\ disk.isFile
    /\ disk.size <= securityConfig.maxFileSize

\* C9: with baseDirectory set, a path is accepted only if it resolves to the
\* base directory or below it; an acceptable file outside it fails with
\* PathTraversal; an acceptable file directly in the base directory is accepted.
C9_OnlyInsideBase ==
    LET segments == ResolvedSegments(cwd, source)
        base == ResolvedSegments(cwd, securityConfig.baseDirectory)
    IN (loadPc = "returned" /\ securityConfig.baseDirectory # <<>>) =>
          /\ validated.status = "ok" => WithinBase(segments, base)
          /\ (FileAcceptable /\ ~WithinBase(segments, base))
                => validated.status = "PathTraversal"
          /\ (FileAcceptable /\ WithinBase(segments, base) /\ Len(segments) = Len(base) + 1)
                => validated.status = "ok"

----------------------------------------------------------------------------
(* loadSwagger, and the command line that compiles what it returns *)

LoadSources ==
    {<<"h","t","t","p","s",":","/","/","a","p","i",".","e","x","a","m","p","l","e",".","c","o","m","/","s","p","e","c",".","j","s","o","n">>,
     <<"h","t","t","p",":","/","/","1","2","7",".","0",".","0",".","1","/","s","p","e","c",".","j","s","o","n">>,
     <<"h","t","t","p","s",":","/","/","[",":",":","1","]","/","s","p","e","c",".","j","s","o","n">>,
     <<"H","T","T","P","S",":","/","/","a","p","i",".","e","x","a","m","p","l","e",".","c","o","m","/","s","p","e","c",".","j","s","o","n">>,
     <<"/","a","l","l","o","w","e","d","/","x",".","y","a","m","l">>,
     <<".",".","/","e","s","c","a","p","e",".","y","a","m","l">>,
     <<"/","a","l","l","o","w","e","d","/","x",".","t","x","t">>,
     <<"/","a","l","l","o","w","e","d","/","s","u","b","/","x",".","j","s","o","n">>}

LoadConfigs ==
    {defaultSecurityConfig,
     [defaultSecurityConfig EXCEPT !.allowedSchemes = {S_http, S_https},
                                   !.blockPrivateIPs = FALSE],
     [defaultSecurityConfig EXCEPT !.baseDirectory = S_allowed]}

LoadPaths == {p \in PathsOfLen(1) : EntryCount(p) <= 1 \/ p[1].key = R_a}

\* Documents a source can hold: complete ones, one with an empty paths map,
\* and ones with a required field missing.
LoadDocuments ==
    {Document(<<S_https_h>>, <<>>, p) : p \in LoadPaths \cup {<<>>}}
    \cup {NoDocument,
          [Document(<<S_https_h>>, <<>>, <<>>) EXCEPT !.version = FALSE],
          [Document(<<S_https_h>>, <<>>, <<>>) EXCEPT !.info.title = FALSE],
          [Document(<<S_https_h>>, <<>>, <<>>) EXCEPT !.hasPaths = FALSE]}

\* What the source holds: JSON text, YAML text, or text that is neither.
LoadContents ==
    {[format |-> f, doc |-> d] : f \in {"json", "yaml"}, d \in LoadDocuments}
    \cup {[format |-> "text", doc |-> NoDocument]}

\* Line 35: the test that sends a source to the URL branch.
IsHttpSource(src) ==
    \/ startsWith(src, <<"h","t","t","p",":","/","/">>)
    \/ startsWith(src, <<"h","t","t","p","s",":","/","/">>)

\* The fetch and the read made whatever the validator did.
IoAllowedAlways(v) == TRUE

\* Lines 37 and 51: a validator that throws leaves the try block, so the fetch
\* on line 41 and the read on line 55 run only after it returned.
IoAllowed(v) == v.status = "ok"

\* Line 47: axios hands over an object only for a JSON response.
ResponseData(c) == IF c.format = "json" THEN Returned(c.doc) ELSE Returned(NoDocument)

\* Lines 58-62: yaml.safeLoad for .yaml and .yml, JSON.parse otherwise.
ParseFile(src, c) ==
    IF endsWith(src, <<".","y","a","m","l">>) \/ endsWith(src, <<".","y","m","l">>)
    THEN IF c.format = "text" THEN Returned(NoDocument) ELSE Returned(c.doc)
    ELSE IF c.format = "json" THEN Returned(c.doc) ELSE Thrown("ParseError")

LoadFailed(error) == [status |-> "failed", error |-> error, spec |-> NoDocument]

\* Lines 66-68 and the catch on 69-74.
Checked(parsed) ==
    IF parsed.status # "ok" THEN LoadFailed(parsed.status)
    ELSE IF validateSwaggerSpec(parsed.value) # "ok"
         THEN LoadFailed(validateSwaggerSpec(parsed.value))
         ELSE [status |-> "ok", error |-> "", spec |-> parsed.value]

\* Lines 32-45 and 49-62: validate the source, then fetch it or read it.
LoadBegin ==
    /\ loadPc = "start"
    /\ IF IsHttpSource(source)
       THEN LET v == validateURL(source, securityConfig)
            IN /\ validated' = [status |-> v.status, value |-> <<>>]
               /\ IF IoAllowed(v)
                  THEN fetches' = fetches + 1 /\ loadPc' = "awaiting" /\ loaded' = loaded
                  ELSE fetches' = fetches /\ loadPc' = "done" /\ loaded' = LoadFailed(v.status)
               /\ reads' = reads
       ELSE LET v == validateFilePath(source, securityConfig, cwd, disk)
            IN /\ validated' = [status |-> v.status, value |-> <<>>]
               /\ IF IoAllowed(v)
                  THEN reads' = reads + 1 /\ loaded' = Checked(ParseFile(source, content))
                  ELSE reads' = reads /\ loaded' = LoadFailed(v.status)
               /\ loadPc' = "done"
               /\ fetches' = fetches
    /\ UNCHANGED <<source, securityConfig, cwd, disk, content, compileVars, requestVars, schemaVars, serverVars, poolVars>>

\* Lines 41-47, 66-68: the response arrives or the request fails.
LoadResponse ==
    /\ loadPc = "awaiting"
    /\ \E arrives \in BOOLEAN :
          loaded' = IF arrives THEN Checked(ResponseData(content))
                    ELSE LoadFailed("NetworkError")
    /\ loadPc' = "done"
    /\ UNCHANGED <<source, securityConfig, cwd, disk, content, validated, fetches, reads,
                   compileVars, requestVars, schemaVars, serverVars, poolVars>>

\* bin/cli.js lines 35-38: what loadSwagger returned goes to createMCPFromSwagger.
CliCompile ==
    /\ loadPc = "done"
    /\ loaded.status = "ok"
    /\ pc = "idle"
    /\ swagger' = loaded.spec
    /\ pc' = "start"
    /\ loadPc' = "compiling"
    /\ UNCHANGED <<options, hostRejectsDuplicates, pathIdx, methodIdx, registeredTools,
                   serverTools, manifest, toolCount, manifestFile, result, trail,
                   source, securityConfig, cwd, disk, content, validated, fetches, reads,
                   loaded, requestVars, schemaVars, serverVars, poolVars>>

InitLoad ==
    /\ source \in LoadSources
    /\ securityConfig \in LoadConfigs
    /\ cwd = S_allowed
    /\ disk \in {NoDisk, [exists |-> TRUE, isFile |-> TRUE, size |-> 100]}
    /\ content \in LoadContents
    /\ loadPc = "start"
    /\ validated = NotCalled
    /\ fetches = 0
    /\ reads = 0
    /\ loaded = [status |-> "none", error |-> "", spec |-> NoDocument]
    /\ swagger = NoDocument
    /\ options \in {[manifestOnly |-> m, port |-> DefaultPort] : m \in BOOLEAN}
    /\ hostRejectsDuplicates = FALSE
    /\ pc = "idle"
    /\ CompileIdle
    /\ RequestIdle
    /\ RuntimeIdle

NextLoad ==
    \/ LoadBegin
    \/ LoadResponse
    \/ CliCompile
    \/ CreateStart
    \/ PathItemThrows
    \/ NextPath
    \/ SkipNonOperation
    \/ CompileOperation
    \/ Finish

SpecLoad == InitLoad /\ [][NextLoad]_vars

\* A document whose paths map is present and empty.
EmptyPathsDocument(d) == d.isObject /\ d.hasPaths /\ Len(d.paths) = 0

\* The source was fetched or read and its content parsed into an object.
ContentParsed ==
    /\ loadPc = "done"
    /\ validated.status = "ok"
    /\ loaded.error \notin {"NetworkError", "ParseError"}
    /\ IF fetches > 0 THEN content.format = "json" ELSE content.format # "text"

\* C5: a document whose paths map is empty is rejected by validateSwaggerSpec,
\* with the paths error when its other required fields are present; the load
\* fails, and compilation never starts for it.
C5_EmptyPathsRejected ==
    EmptyPathsDocument(content.doc) =>
        /\ ContentParsed =>
              /\ loaded.status = "failed"
              /\ (content.doc.version /\ content.doc.info.title)
                    => loaded.error = "InvalidSpec:paths.empty"
        /\ pc = "idle"
        /\ CompileIdle

C5_Witness ==
    /\ ContentParsed
    /\ EmptyPathsDocument(content.doc)
    /\ loaded.error = "InvalidSpec:paths.empty"

\* C6: loadSwagger fetches a source only after validateURL accepted it and
\* reads one only after validateFilePath accepted it; a source its validator
\* rejects ends in a load failure with neither a fetch nor a read.
C6_ValidatedBeforeIO ==
    /\ fetches > 0 =>
          IsHttpSource(source) /\ validateURL(source, securityConfig).status = "ok"
    /\ reads > 0 =>
          /\ ~IsHttpSource(source)
          /\ validateFilePath(source, securityConfig, cwd, disk).status = "ok"
    /\ validated.status \notin {"none", "ok"} =>
          fetches = 0 /\ reads = 0 /\ loaded = LoadFailed(validated.status)

C6_Witness ==
    /\ loadPc = "awaiting"
    /\ fetches = 1
    /\ validated.status = "ok"
    /\ IsHttpSource(source)

----------------------------------------------------------------------------
(* The request executor: buildRequestConfig and a registered tool's handler *)

\* The characters encodeURIComponent escapes, of those the model's inputs use.
PercentCodes ==
    <<[c |-> " ", code |-> <<"%","2","0">>], [c |-> "/", code |-> <<"%","2","F">>],
      [c |-> "{", code |-> <<"%","7","B">>], [c |-> "}", code |-> <<"%","7","D">>],
      [c |-> "%", code |-> <<"%","2","5">>], [c |-> "?", code |-> <<"%","3","F">>],
      [c |-> "#", code |-> <<"%","2","3">>], [c |-> "&", code |-> <<"%","2","6">>],
      [c |-> "=", code |-> <<"%","3","D">>], [c |-> ":", code |-> <<"%","3","A">>],
      [c |-> "$", code |-> <<"%","2","4">>]>>

RECURSIVE encodeURIComponent(_)
encodeURIComponent(s) ==
    IF s = <<>> THEN <<>>
    ELSE LET hit == {i \in DOMAIN PercentCodes : PercentCodes[i].c = Head(s)}
         IN (IF hit = {} THEN <<Head(s)>> ELSE PercentCodes[CHOOSE i \in hit : TRUE].code)
            \o encodeURIComponent(Tail(s))

Placeholder(name) == <<"{">> \o name \o <<"}">>

RECURSIVE SubstitutePath(_, _, _)
\* Lines 112-116: one String.replace per declared path parameter the input holds.
SubstitutePath(url, pathParams, input) ==
    IF pathParams = <<>> THEN url
    ELSE LET name == Head(pathParams).key
         IN SubstitutePath(IF Has(input, name)
                           THEN replaceFirst(url, Placeholder(name),
                                             encodeURIComponent(Get(input, name).v))
                           ELSE url,
                           Tail(pathParams), input)

\* The input's values for the parameters of one bucket, in the bucket's order.
Supplied(bucket, input) ==
    LET present == SelectSeq(bucket, LAMBDA e : Has(input, e.key))
    IN [i \in DOMAIN present |->
          [key |-> present[i].key, value |-> Get(input, present[i].key)]]

MutatingMethods == {S_post, <<"p","u","t">>, <<"p","a","t","c","h">>}
S_body == <<"_","b","o","d","y">>

\* buildRequestConfig(input, operation, method, route, baseUrl)
buildRequestConfig(input, operation, method, route, baseUrl) ==
    LET P == extractParameters(operation).parameters
        queryParams == Supplied(P.query, input)
        bodyData == DeleteAll(input, KeySeq(P.path) \o KeySeq(P.query) \o KeySeq(P.header))
        mutating == toLowerCase(method) \in MutatingMethods
        verbatim == mutating /\ Has(bodyData, S_body)
    IN [method |-> toLowerCase(method),
        url |-> SubstitutePath(baseUrl \o route, P.path, input),
        headers |-> PutAll(<<[key |-> <<"C","o","n","t","e","n","t","-","T","y","p","e">>,
                              value |-> [t |-> "string", v |-> <<"a","p","p","l","i","c","a","t","i","o","n","/","j","s","o","n">>]]>>,
                           Supplied(P.header, input)),
        timeout |-> 30000,
        hasMaxContentLength |-> FALSE,
        hasParams |-> Len(queryParams) > 0,
        params |-> queryParams,
        hasData |-> mutating /\ Len(bodyData) > 0,
        verbatim |-> verbatim,
        body |-> IF verbatim THEN Get(bodyData, S_body) ELSE NoValue,
        data |-> IF mutating /\ ~verbatim THEN bodyData ELSE <<>>]

S_k == <<"k">>
S_q == <<"q">>
S_name == <<"n","a","m","e">>
S_trace == <<"t","r","a","c","e">>
S_session == <<"s","e","s","s","i","o","n">>

RequestRoutes ==
    {<<"/","p","/","{","i","d","}">>, <<"/","p","/","{","i","d","}","/","c","/","{","i","d","}">>, <<"/","p","/","{","i","d","}","/","{","k","}">>, <<"/","p">>}

\* servers[0].url: plain, and with a server variable.
RequestBaseUrls == {S_https_h, <<"h","t","t","p","s",":","/","/","{","i","d","}",".","h">>}

RequestMethods == {S_get, S_GET, S_post, <<"d","e","l","e","t","e">>}

NameBody ==
    [present |-> TRUE, required |-> FALSE, json |-> TRUE,
     schema |-> [type |-> "object", hasProperties |-> TRUE,
                 properties |-> <<[key |-> S_name, value |-> [type |-> "string"]]>>,
                 required |-> NoRequired, ref |-> <<>>]]

\* A JSON request body that is a plain string: it travels under _body.
TextBody ==
    [present |-> TRUE, required |-> FALSE, json |-> TRUE,
     schema |-> [type |-> "string", hasProperties |-> FALSE, properties |-> <<>>,
                 required |-> NoRequired, ref |-> <<>>]]

RequestOperations ==
    {Operation(<<>>, <<Param("path", S_id, TRUE, "integer")>>, NoBody),
     Operation(<<>>, <<Param("path", S_id, TRUE, "integer"),
                       Param("query", S_q, FALSE, "string")>>, NoBody),
     Operation(<<>>, <<Param("path", S_id, TRUE, "integer"),
                       Param("path", S_k, TRUE, "string")>>, NoBody),
     Operation(<<>>, <<Param("path", S_id, TRUE, "integer"),
                       Param("header", S_trace, FALSE, "string")>>, NoBody),
     Operation(<<>>, <<Param("path", S_id, FALSE, "integer")>>, NoBody),
     Operation(<<>>, <<Param("path", S_id, TRUE, "integer")>>, NameBody),
     Operation(<<>>, <<Param("path", S_id, TRUE, "integer")>>, TextBody),
     Operation(<<>>, <<Param("path", S_id, TRUE, "integer"),
                       Param("cookie", S_session, FALSE, "string")>>, NoBody)}

OptionalField(key, values) ==
    {<<>>} \cup {<<[key |-> key, value |-> v]>> : v \in values}

RequestInputs ==
    {a \o b \o c \o d \o e \o f :
        a \in OptionalField(S_id, {[t |-> "integer", v |-> <<"4","2">>],
                                   [t |-> "string", v |-> <<"a","/","b">>]}),
        b \in OptionalField(S_k, {[t |-> "string", v |-> <<"a"," ","b">>]}),
        c \in OptionalField(S_q, {[t |-> "string", v |-> <<"x">>]}),
        d \in OptionalField(S_trace, {[t |-> "string", v |-> <<"t","1">>]}),
        e \in OptionalField(S_name, {[t |-> "string", v |-> <<"R","e","x">>]}),
        f \in OptionalField(S_body, {[t |-> "string", v |-> <<"r","a","w">>]})
              \cup OptionalField(S_session, {[t |-> "string", v |-> <<"s","1">>]})}

\* The operations createMCPFromSwagger registers a handler for.
Registers(operation, method) ==
    /\ IsOperationKey(method)
    /\ ~operation.isNull
    /\ ~ParametersThrow(operation)
    /\ ~ajvCompileThrows(buildInputSchema(operation))

InitRequest ==
    /\ call \in {c \in [operation : RequestOperations, method : RequestMethods,
                        route : RequestRoutes, baseUrl : RequestBaseUrls,
                        input : RequestInputs] : Registers(c.operation, c.method)}
    /\ callPc = "called"
    /\ request = NoRequest
    /\ outcome = NoOutcome
    /\ dispatched = 0
    /\ CompileNotStarted
    /\ LoadIdle
    /\ RuntimeIdle

\* validate.errors after validate(input) with allErrors: one error per missing
\* required property, per property the schema does not declare, and per value
\* of the wrong type.  instancePath names the value an error is about; a
\* 'required' error carries the missing property in its message, an
\* 'additionalProperties' error is about the whole input ("must NOT have
\* additional properties") and names no property.
errorsOf(schema, input) ==
    LET missing == SelectSeq(schema.required, LAMBDA k : ~Has(input, k))
        unknown == SelectSeq(input, LAMBDA e : ~Has(schema.properties, e.key))
        mistyped == SelectSeq(input, LAMBDA e :
                        /\ Has(schema.properties, e.key)
                        /\ ~TypeMatches(Get(schema.properties, e.key).type, e.value))
    IN [i \in DOMAIN missing |->
           [keyword |-> "required", instancePath |-> <<>>, quoted |-> missing[i]]]
       \o [i \in DOMAIN unknown |->
           [keyword |-> "additionalProperties", instancePath |-> <<>>, quoted |-> <<>>]]
       \o [i \in DOMAIN mistyped |->
           [keyword |-> "type", instancePath |-> S_slash \o mistyped[i].key, quoted |-> <<>>]]

\* ajv.errorsText(errors): for each error the data path and the message.
errorsText(errors) ==
    [i \in DOMAIN errors |-> [path |-> errors[i].instancePath, quoted |-> errors[i].quoted]]

\* Lines 284-295: the Error the catch block throws for what it caught.
Rethrown(cause, inner, text) ==
    [status |-> "thrown", cause |-> cause,
     label |-> CASE cause = "http" -> "HTTP <status>: "
                 [] cause = "noResponse" -> "No response received: "
                 [] OTHER -> "Request failed: ",
     inner |-> inner, text |-> text]

\* errorData?.message || errorData?.error || JSON.stringify(errorData)
HttpErrorText(errorData) ==
    IF errorData.message # "" THEN errorData.message
    ELSE IF errorData.error # "" THEN errorData.error
    ELSE errorData.raw

ErrorBodies ==
    {[message |-> "m", error |-> "e", raw |-> "{message,error}"],
     [message |-> "", error |-> "e", raw |-> "{error}"],
     [message |-> "", error |-> "", raw |-> "{}"]}

\* Lines 262-273: validate the input, build the request, hand it to axios.
Invoke ==
    /\ callPc = "called"
    /\ LET schema == buildInputSchema(call.operation)
       IN IF validate(schema, call.input)
          THEN /\ request' = buildRequestConfig(call.input,
                                                OperationAfterExtract(call.operation),
                                                call.method, call.route, call.baseUrl)
               /\ dispatched' = dispatched + 1
               /\ callPc' = "awaiting"
               /\ outcome' = outcome
          ELSE /\ request' = request
               /\ dispatched' = dispatched
               /\ callPc' = "done"
               /\ outcome' = Rethrown("validation", "Input validation failed: ",
                                      errorsText(errorsOf(schema, call.input)))
    /\ UNCHANGED <<call, compileVars, loadVars, schemaVars, serverVars, poolVars>>

\* Lines 273-296: axios settles with a response, with an HTTP error status,
\* without a response, or with an error raised before anything was sent.
Settle ==
    /\ callPc = "awaiting"
    /\ \/ outcome' = [status |-> "returned", cause |-> "", label |-> "", inner |-> "",
                      text |-> <<"response.data">>]
       \/ \E errorData \in ErrorBodies :
             outcome' = Rethrown("http", "", <<HttpErrorText(errorData)>>)
       \/ outcome' = Rethrown("noResponse", "", <<"err.message">>)
       \/ outcome' = Rethrown("setup", "", <<"err.message">>)
    /\ callPc' = "done"
    /\ UNCHANGED <<call, request, dispatched, compileVars, loadVars, schemaVars, serverVars,
                   poolVars>>

NextRequest == Invoke \/ Settle

SpecRequest == InitRequest /\ [][NextRequest]_vars

RECURSIVE ReplaceEvery(_, _, _)
\* s with every occurrence of p replaced by r.
ReplaceEvery(s, p, r) ==
    LET i == indexOf(s, p)
    IN IF i = 0 THEN s
       ELSE SubSeq(s, 1, i - 1) \o r \o ReplaceEvery(SubSeq(s, i + Len(p), Len(s)), p, r)

RECURSIVE FilledRoute(_, _, _)
\* The route with each named placeholder replaced by the encoded input value.
FilledRoute(route, names, input) ==
    IF names = <<>> THEN route
    ELSE FilledRoute(ReplaceEvery(route, Placeholder(Head(names)),
                                  encodeURIComponent(Get(input, Head(names)).v)),
                     Tail(names), input)

\* C10: for a non-mutating operation whose declared path parameters are all
\* required, and an input that passed validation, the request URL is the base
\* URL followed by the route with every declared placeholder replaced by the
\* encoded input value; there is no body, and there are query parameters only
\* if the input holds a declared query parameter.
C10_NonMutatingRequest ==
    LET ex == extractParameters(call.operation)
        declared == KeySeq(ex.parameters.path)
    IN (/\ request # NoRequest
        /\ toLowerCase(call.method) \notin MutatingMethods
        /\ declared # <<>>
        /\ \A i \in DOMAIN declared : \E j \in DOMAIN ex.required.path :
              ex.required.path[j] = declared[i])
       => /\ request.url = call.baseUrl \o FilledRoute(call.route, declared, call.input)
          /\ ~request.hasData
          /\ request.hasParams =>
                \E i \in DOMAIN ex.parameters.query : Has(call.input, ex.parameters.query[i].key)

\* The input fields that are not parameters of the given locations.
Remaining(input, operation, locations) ==
    LET P == extractParameters(operation).parameters
        consumed == (IF "path" \in locations THEN Keys(P.path) ELSE {})
                    \cup (IF "query" \in locations THEN Keys(P.query) ELSE {})
                    \cup (IF "header" \in locations THEN Keys(P.header) ELSE {})
    IN SelectSeq(input, LAMBDA e : e.key \notin consumed)

\* C11: for post, put and patch the request body is exactly the input fields
\* that are not declared path, query or header parameters, and when the input
\* holds '_body' the body is that field's value verbatim.
C11_MutatingBody ==
    (request # NoRequest /\ toLowerCase(call.method) \in MutatingMethods) =>
        LET rest == Remaining(call.input, call.operation, {"path", "query", "header"})
        IN IF Has(call.input, S_body)
           THEN request.hasData /\ request.verbatim /\ request.body = Get(call.input, S_body)
           ELSE /\ ~request.verbatim
                /\ request.data = rest
                /\ request.hasData = (rest # <<>>)

\* The path parameter is substituted and the body is exactly {name: "Rex"}.
C11_Witness ==
    /\ callPc = "awaiting"
    /\ call.method = S_post
    /\ call.route = <<"/","p","/","{","i","d","}">>
    /\ call.baseUrl = S_https_h
    /\ call.input = <<[key |-> S_id, value |-> [t |-> "integer", v |-> <<"4","2">>]],
                      [key |-> S_name, value |-> [t |-> "string", v |-> <<"R","e","x">>]]>>
    /\ request.url = <<"h","t","t","p","s",":","/","/","h","/","p","/","4","2">>
    /\ request.data = <<[key |-> S_name, value |-> [t |-> "string", v |-> <<"R","e","x">>]]>>

\* C12: for a method other than post, put and patch the query parameters of
\* the request are all the input fields that are not declared path or header
\* parameters.
C12_RemainingFieldsAsQuery ==
    (request # NoRequest /\ toLowerCase(call.method) \notin MutatingMethods) =>
        /\ request.params = Remaining(call.input, call.operation, {"path", "header"})
        /\ request.hasParams = (request.params # <<>>)

----------------------------------------------------------------------------
(* Claims about the handler's failures *)

\* The required fields the input lacks, and the fields the schema does not declare.
MissingFields == 
    LET schema == buildInputSchema(call.operation)
    IN {schema.required[i] : i \in DOMAIN schema.required} \ Keys(call.input)

UndeclaredFields == Keys(call.input) \ Keys(buildInputSchema(call.operation).properties)

\* The failure text names the field: as the path of the value, or quoted in the message.
Cited(field) ==
    \E i \in DOMAIN outcome.text :
        outcome.text[i].quoted = field \/ outcome.text[i].path = S_slash \o field

\* C15 as stated: an invocation whose input holds an undeclared property or
\* lacks a required field never leads to an HTTP request, and its failure cites
\* every offending field.
C15_InvalidInputCitedAndNotSent ==
    (callPc # "called" /\ MissingFields \cup UndeclaredFields # {}) =>
        /\ dispatched = 0
        /\ request = NoRequest
        /\ outcome.status = "thrown"
        /\ outcome.inner = "Input validation failed: "
        /\ \A field \in MissingFields \cup UndeclaredFields : Cited(field)

\* C15 amended: such an invocation never leads to an HTTP request; its failure
\* is the validation failure and cites every missing required field (an
\* undeclared property is reported without its name).
C15_InvalidInputNotSent ==
    (callPc # "called" /\ MissingFields \cup UndeclaredFields # {}) =>
        /\ dispatched = 0
        /\ request = NoRequest
        /\ outcome.status = "thrown"
        /\ outcome.inner = "Input validation failed: "
        /\ \A field \in MissingFields : Cited(field)

C15_Witness ==
    /\ callPc = "done"
    /\ call.input = <<>>
    /\ MissingFields = {S_id}
    /\ dispatched = 0
    /\ Cited(S_id)

\* C16: when the input fails validation, the failure is the returned result of
\* the invocation and is not thrown.
C16_ValidationFailureReturned ==
    (callPc = "done" /\ ~validate(buildInputSchema(call.operation), call.input)) =>
        outcome.status = "returned"

FailureClasses == {"validation", "http", "noResponse", "setup"}

\* C17: a failed invocation is thrown under the label of its class (validation
\* failure, HTTP error response with the server's message, else its error,
\* else the raw body, no response, request construction), and that label is
\* not the label of any other class.
C17_OneLabelPerFailureClass ==
    (callPc = "done" /\ outcome.cause \in FailureClasses) =>
        /\ outcome.status = "thrown"
        /\ \A other \in FailureClasses \ {outcome.cause} :
              Rethrown(other, "", <<>>).label # outcome.label
        /\ outcome.cause = "http" =>
              \E errorData \in ErrorBodies :
                  outcome.text = <<IF errorData.message # "" THEN errorData.message
                                   ELSE IF errorData.error # "" THEN errorData.error
                                   ELSE errorData.raw>>

\* Lines 41-45: the options of the spec fetch.
FetchConfig ==
    [timeout |-> 10000, hasMaxContentLength |-> TRUE,
     maxContentLength |-> 10 * 1024 * 1024, maxBodyLength |-> 10 * 1024 * 1024]

\* C21: the spec fetch and every request a handler dispatches carry a timeout
\* and a limit on the size of the response.
C21_BoundedNetworkCalls ==
    /\ FetchConfig.timeout > 0
    /\ FetchConfig.hasMaxContentLength /\ FetchConfig.maxContentLength > 0
    /\ callPc = "awaiting" => (request.timeout > 0 /\ request.hasMaxContentLength)

\* C26: the URL of a dispatched request holds none of the placeholders of the
\* route.
C26_NoPlaceholderLeft ==
    callPc = "awaiting" =>
        \A name \in {S_id, S_k} :
            indexOf(call.route, Placeholder(name)) # 0 =>
                indexOf(request.url, call.baseUrl) = 1
                /\ indexOf(SubSeq(request.url, Len(call.baseUrl) + 1, Len(request.url)),
                           Placeholder(name)) = 0

----------------------------------------------------------------------------
(* schema.js: buildInputSchema called on its own *)

SchemaParameters ==
    {<<>>,
     <<Param("path", S_id, TRUE, "integer")>>,
     <<Param("path", S_id, TRUE, "integer"), Param("query", S_id, FALSE, "string")>>,
     <<Param("query", S_q, TRUE, ""), Param("header", S_trace, FALSE, "string")>>,
     <<Param("cookie", S_session, TRUE, "string")>>,
     <<Param("path", S_id, TRUE, "integer"), Param("path", S_id, TRUE, "integer")>>,
     <<Param("formData", S_q, TRUE, "string"), Param("query", S_k, FALSE, "string")>>,
     <<Param("query", <<>>, TRUE, "string"), Param("header", S_trace, TRUE, "string")>>}

\* A JSON body: an object schema with the given property and required names,
\* or a schema of the given type without properties.
Body(required, type, property, names) ==
    [present |-> TRUE, required |-> required, json |-> TRUE,
     schema |-> [type |-> type, hasProperties |-> property # <<>>,
                 properties |-> IF property = <<>> THEN <<>>
                                ELSE <<[key |-> property, value |-> [type |-> "string"]]>>,
                 required |-> [isTrue |-> FALSE, names |-> names], ref |-> <<>>]]

S_Pet == <<"#","/","c","o","m","p","o","n","e","n","t","s","/","s","c","h","e","m","a","s","/","P","e","t">>

\* A JSON body whose schema is { $ref: '#/components/schemas/Pet' }.
RefBody(required) ==
    [present |-> TRUE, required |-> required, json |-> TRUE,
     schema |-> [type |-> "", hasProperties |-> FALSE, properties |-> <<>>,
                 required |-> NoRequired, ref |-> S_Pet]]

SchemaBodies ==
    {NoBody,
     RefBody(FALSE),
     RefBody(TRUE),
     [NoBody EXCEPT !.present = TRUE],
     Body(FALSE, "object", S_name, <<>>),
     Body(FALSE, "object", S_name, <<S_name>>),
     Body(TRUE, "object", S_name, <<S_name>>),
     Body(FALSE, "object", S_id, <<S_id>>),
     Body(FALSE, "string", <<>>, <<>>),
     Body(TRUE, "string", <<>>, <<>>)}

SchemaOperations ==
    {Operation(<<>>, parameters, body) : parameters \in SchemaParameters, body \in SchemaBodies}

InitSchema ==
    /\ schemaArgs \in {[given |-> op, operation |-> op] : op \in SchemaOperations}
    /\ schemaResult = <<>>
    /\ schemaPc = "args"
    /\ CompileNotStarted
    /\ LoadIdle
    /\ RequestIdle
    /\ ServerIdle
    /\ PoolIdle

\* buildInputSchema(operation): the schema returned, and the operation as the
\* call leaves it (extractParameters writes into its body schema).
CallBuildInputSchema ==
    /\ schemaPc = "args"
    /\ schemaResult' = buildInputSchema(schemaArgs.operation)
    /\ schemaArgs' = [schemaArgs EXCEPT !.operation = OperationAfterExtract(@)]
    /\ schemaPc' = "returned"
    /\ UNCHANGED <<compileVars, loadVars, requestVars, serverVars, poolVars>>

\* The parameters of the operation that extractParameters keeps.
DeclaredParameters(operation) ==
    {i \in DOMAIN operation.parameters :
        /\ operation.parameters[i].name # <<>>
        /\ operation.parameters[i].in \in {"path", "query", "header", "cookie"}}

\* C13: buildInputSchema returns an object schema with additionalProperties
\* false and a required list without duplicates, in which every declared path,
\* query, header and cookie parameter is a property tagged with the location
\* the parameter was declared in.
C13_EveryParameterTagged ==
    schemaPc = "returned" =>
        /\ schemaResult.type = "object"
        /\ schemaResult.additionalProperties = FALSE
        /\ \A i, j \in DOMAIN schemaResult.required :
              schemaResult.required[i] = schemaResult.required[j] => i = j
        /\ \A i \in DeclaredParameters(schemaArgs.given) :
              LET param == schemaArgs.given.parameters[i]
              IN /\ Has(schemaResult.properties, param.name)
                 /\ Get(schemaResult.properties, param.name).location = param.in

\* C14: for a JSON body with properties, each is a top-level property and the
\* body schema's required names are in the required list, whether or not the
\* operation marks the body required; a body schema without properties is the
\* '_body' property, required exactly when the operation marks the body required.
C14_BodyFlattenedOrNested ==
    LET body == schemaArgs.given.requestBody
        names == {schemaResult.required[i] : i \in DOMAIN schemaResult.required}
    IN (schemaPc = "returned" /\ body.present /\ body.json) =>
          /\ body.schema.hasProperties =>
                /\ \A i \in DOMAIN body.schema.properties :
                      /\ Has(schemaResult.properties, body.schema.properties[i].key)
                      /\ Get(schemaResult.properties, body.schema.properties[i].key).type
                            = body.schema.properties[i].value.type
                /\ \A i \in DOMAIN body.schema.required.names :
                      body.schema.required.names[i] \in names
          /\ (~body.schema.hasProperties /\ body.schema.type # "") =>
                /\ Has(schemaResult.properties, S_body)
                /\ Get(schemaResult.properties, S_body).type = body.schema.type
                /\ (S_body \in names) = body.required

\* C23: no step of the compile run or of an extractor it calls changes the
\* specification document or the operation object handed to the extractor.
C23_SpecUnchanged == [][swagger' = swagger /\ schemaArgs' = schemaArgs]_vars

----------------------------------------------------------------------------
(* schema.js: resolveSchemaRefs *)

\* JSON values as nodes: an object or an array carries entries (an array under
\* the keys "0", "1", ...), a string carries its text.
Str(text) == [kind |-> "string", text |-> text, entries |-> <<>>]
Obj(entries) == [kind |-> "object", text |-> <<>>, entries |-> entries]
Arr(items) ==
    [kind |-> "array", text |-> <<>>,
     entries |-> [i \in DOMAIN items |->
                    [key |-> <<<<"0","1","2","3","4","5","6","7","8","9">>[i]>>,
                     value |-> items[i]]]]
Undefined == [kind |-> "undefined", text |-> <<>>, entries |-> <<>>]
\* The RangeError of a call stack that is exhausted.
RangeError == [kind |-> "RangeError", text |-> <<>>, entries |-> <<>>]
E(key, value) == [key |-> key, value |-> value]

S_ref == <<"$","r","e","f">>
S_type == <<"t","y","p","e">>
S_properties == <<"p","r","o","p","e","r","t","i","e","s">>
S_items == <<"i","t","e","m","s">>
S_allOf == <<"a","l","l","O","f">>
S_oneOf == <<"o","n","e","O","f">>
S_anyOf == <<"a","n","y","O","f">>

IsObject(node) == node.kind \in {"object", "array"}
Truthy(node) == IsObject(node) \/ (node.kind = "string" /\ node.text # <<>>)
\* node[key]
Field(node, key) == IF Has(node.entries, key) THEN Get(node.entries, key) ELSE Undefined

RECURSIVE Walk(_, _)
\* Lines 267-276: follow the segments from the document; failed when a segment
\* is to be read from something that is not an object.
Walk(node, segments) ==
    IF segments = <<>> THEN [failed |-> FALSE, value |-> node]
    ELSE IF IsObject(node) THEN Walk(Field(node, Head(segments)), Tail(segments))
    ELSE [failed |-> TRUE, value |-> node]

\* schema.$ref.replace(/^#\//, '').split('/')
RefPath(ref) ==
    Split(IF startsWith(ref, <<"#", "/">>) THEN SubSeq(ref, 3, Len(ref)) ELSE ref)

\* The depth of recursion the call stack allows.
MaxResolveDepth == 8

RECURSIVE resolveSchemaRefsWithin(_, _, _)

\* Line 279 without the recursive call: the referenced schema as it stands.
ReferencedAsIs(target, spec, depth) == target

\* Line 279: the referenced schema, itself resolved.
ResolveReferenced(target, spec, depth) == resolveSchemaRefsWithin(target, spec, depth)

\* resolveSchemaRefs(schema, spec) with depth stack frames left.
resolveSchemaRefsWithin(schema, spec, depth) ==
    IF depth = 0 THEN RangeError
    ELSE IF ~IsObject(schema) THEN schema
    ELSE IF Truthy(Field(schema, S_ref))
    THEN LET walked == Walk(spec, RefPath(Field(schema, S_ref).text))
         IN IF walked.failed THEN schema
            ELSE ResolveReferenced(walked.value, spec, depth - 1)
    ELSE LET each(node) ==
                 [i \in DOMAIN node.entries |->
                     E(node.entries[i].key,
                       resolveSchemaRefsWithin(node.entries[i].value, spec, depth - 1))]
             copy(e) ==
                 IF e.key = S_properties /\ IsObject(e.value)
                 THEN E(e.key, Obj(each(e.value)))
                 ELSE IF e.key = S_items /\ Truthy(e.value)
                 THEN E(e.key, resolveSchemaRefsWithin(e.value, spec, depth - 1))
                 ELSE IF e.key \in {S_allOf, S_oneOf, S_anyOf} /\ e.value.kind = "array"
                 THEN E(e.key, [e.value EXCEPT !.entries = each(e.value)])
                 ELSE e
             copied == [i \in DOMAIN schema.entries |-> copy(schema.entries[i])]
             overflow(node) ==
                 \/ node = RangeError
                 \/ \E i \in DOMAIN node.entries : node.entries[i].value = RangeError
         IN IF \E i \in DOMAIN copied :
                  copied[i].key \in {S_properties, S_items, S_allOf, S_oneOf, S_anyOf}
                  /\ overflow(copied[i].value)
            THEN RangeError
            ELSE Obj(copied)

resolveSchemaRefs(schema, spec) == resolveSchemaRefsWithin(schema, spec, MaxResolveDepth)

Ref(ref) == Obj(<<E(S_ref, Str(ref))>>)
Typed(type) == Obj(<<E(S_type, Str(type))>>)

\* The document the references point into: schemas that are plain, that refer
\* to one another, and one that refers to itself.
ResolveDocument ==
    Obj(<<E(<<"i","n","f","o">>, Obj(<<E(<<"t","i","t","l","e">>, Str(<<"T">>))>>)),
          E(<<"s","e","r","v","e","r","s">>, Arr(<<Obj(<<E(<<"u","r","l">>, Str(S_https_h))>>)>>)),
          E(<<"c","o","m","p","o","n","e","n","t","s">>, Obj(<<E(<<"s","c","h","e","m","a","s">>, Obj(<<
              E(<<"T","a","g">>, Typed(<<"s","t","r","i","n","g">>)),
              E(<<"A","l","i","a","s">>, Ref(<<"#","/","c","o","m","p","o","n","e","n","t","s","/","s","c","h","e","m","a","s","/","T","a","g">>)),
              E(<<"P","e","t">>, Obj(<<E(S_type, Str(<<"o","b","j","e","c","t">>)),
                            E(S_properties, Obj(<<E(S_name, Typed(<<"s","t","r","i","n","g">>)),
                                                  E(<<"t","a","g">>, Ref(<<"#","/","c","o","m","p","o","n","e","n","t","s","/","s","c","h","e","m","a","s","/","A","l","i","a","s">>))>>))>>)),
              E(<<"L","i","s","t">>, Obj(<<E(S_type, Str(<<"a","r","r","a","y">>)),
                             E(S_items, Ref(<<"#","/","c","o","m","p","o","n","e","n","t","s","/","s","c","h","e","m","a","s","/","P","e","t">>))>>)),
              E(<<"N","o","d","e">>, Obj(<<E(S_properties,
                               Obj(<<E(<<"n","e","x","t">>, Ref(<<"#","/","c","o","m","p","o","n","e","n","t","s","/","s","c","h","e","m","a","s","/","N","o","d","e">>))>>))>>)),
              E(<<"D","a","n","g","l","i","n","g">>, Ref(<<"#","/","i","n","f","o","/","t","i","t","l","e","/","x">>))>>))>>))>>)

ResolveRefs ==
    {<<"#","/","c","o","m","p","o","n","e","n","t","s","/","s","c","h","e","m","a","s","/","T","a","g">>,
     <<"#","/","c","o","m","p","o","n","e","n","t","s","/","s","c","h","e","m","a","s","/","A","l","i","a","s">>,
     <<"#","/","c","o","m","p","o","n","e","n","t","s","/","s","c","h","e","m","a","s","/","P","e","t">>,
     <<"#","/","c","o","m","p","o","n","e","n","t","s","/","s","c","h","e","m","a","s","/","L","i","s","t">>,
     <<"#","/","c","o","m","p","o","n","e","n","t","s","/","s","c","h","e","m","a","s","/","N","o","d","e">>,
     <<"#","/","c","o","m","p","o","n","e","n","t","s","/","s","c","h","e","m","a","s","/","D","a","n","g","l","i","n","g">>,
     <<"#","/","c","o","m","p","o","n","e","n","t","s","/","s","c","h","e","m","a","s","/","M","i","s","s","i","n","g">>,
     <<"#","/","i","n","f","o","/","t","i","t","l","e">>,
     <<"#","/","i","n","f","o","/","t","i","t","l","e","/","x">>,
     <<"#","/","s","e","r","v","e","r","s">>,
     <<"o","t","h","e","r",".","y","a","m","l","#","/","X">>,
     <<"#","/","c","o","m","p","o","n","e","n","t","s","/","s","c","h","e","m","a","s">>}

ResolveLeaves ==
    {Ref(r) : r \in ResolveRefs}
    \cup {Typed(<<"s","t","r","i","n","g">>), Str(<<"x">>), Undefined, Obj(<<>>),
          Obj(<<E(S_ref, Str(<<"#","/","c","o","m","p","o","n","e","n","t","s","/","s","c","h","e","m","a","s","/","T","a","g">>)), E(S_type, Str(<<"o","b","j","e","c","t">>))>>)}

ResolveSchemas ==
    ResolveLeaves
    \cup {Obj(<<E(S_type, Str(<<"o","b","j","e","c","t">>)), E(S_properties, Obj(<<E(S_name, leaf)>>))>> ) :
             leaf \in ResolveLeaves}
    \cup {Obj(<<E(S_items, leaf)>>) : leaf \in ResolveLeaves}
    \cup {Obj(<<E(key, Arr(<<leaf, Typed(<<"o","b","j","e","c","t">>)>>))>>) :
             leaf \in ResolveLeaves, key \in {S_allOf, S_oneOf, S_anyOf}}

NotResolved == [first |-> Undefined, second |-> Undefined]

InitResolve ==
    /\ schemaArgs \in {[schema |-> s, spec |-> ResolveDocument] : s \in ResolveSchemas}
    /\ schemaResult = NotResolved
    /\ schemaPc = "args"
    /\ CompileNotStarted
    /\ LoadIdle
    /\ RequestIdle
    /\ ServerIdle
    /\ PoolIdle

\* resolveSchemaRefs(schema, spec): returns, or the stack overflows.
CallResolve ==
    /\ schemaPc = "args"
    /\ LET first == resolveSchemaRefs(schemaArgs.schema, schemaArgs.spec)
       IN /\ schemaResult' = [schemaResult EXCEPT !.first = first]
          /\ schemaPc' = IF first = RangeError THEN "thrown" ELSE "once"
    /\ UNCHANGED <<schemaArgs, compileVars, loadVars, requestVars, serverVars, poolVars>>

\* resolveSchemaRefs applied to what the first call returned.
CallResolveAgain ==
    /\ schemaPc = "once"
    /\ schemaResult' = [schemaResult EXCEPT
                           !.second = resolveSchemaRefs(schemaResult.first, schemaArgs.spec)]
    /\ schemaPc' = "twice"
    /\ UNCHANGED <<schemaArgs, compileVars, loadVars, requestVars, serverVars, poolVars>>

NextResolve == CallResolve \/ CallResolveAgain

SpecResolve == InitResolve /\ [][NextResolve]_vars

RECURSIVE HasRef(_)
\* A $ref somewhere in the value.
HasRef(node) ==
    \/ Truthy(Field(node, S_ref))
    \/ \E i \in DOMAIN node.entries : HasRef(node.entries[i].value)

\* C18: resolving what resolveSchemaRefs returned returns the same schema, and
\* a schema without any $ref is returned as it was given.
C18_ResolveIdempotent ==
    /\ schemaPc = "twice" => schemaResult.second = schemaResult.first
    /\ (schemaPc \in {"once", "twice"} /\ ~HasRef(schemaArgs.schema)) =>
           schemaResult.first = schemaArgs.schema

\* A reference through an alias into a schema with a reference of its own.
C18_Witness ==
    /\ schemaPc = "twice"
    /\ schemaArgs.schema = Ref(<<"#","/","c","o","m","p","o","n","e","n","t","s","/","s","c","h","e","m","a","s","/","L","i","s","t">>)
    /\ schemaResult.first # schemaArgs.schema
    /\ ~HasRef(schemaResult.first)
    /\ schemaResult.second = schemaResult.first

\* A node whose $ref does not lead to a value of the document.
Dangling(node, spec) ==
    /\ IsObject(node)
    /\ Truthy(Field(node, S_ref))
    /\ LET walked == Walk(spec, RefPath(Field(node, S_ref).text))
       IN walked.failed \/ walked.value = Undefined

\* Where a schema of the model holds a nested schema.
ResolvePositions ==
    {<<>>, <<S_items>>, <<S_properties, S_name>>}
    \cup {<<key, <<"0">> >> : key \in {S_allOf, S_oneOf, S_anyOf}}

\* C22: wherever the schema holds a $ref that the document does not resolve,
\* the result holds that same node, and the call returns.
C22_DanglingRefKept ==
    /\ (schemaPc = "thrown") => HasRef(schemaArgs.schema)
    /\ schemaPc \in {"once", "twice"} =>
          \A position \in ResolvePositions :
              LET given == Walk(schemaArgs.schema, position)
              IN (~given.failed /\ Dangling(given.value, schemaArgs.spec)) =>
                     Walk(schemaResult.first, position).value = given.value

\* The schemas resolveSchemaRefs descends into from an object without $ref.
Nested(node) ==
    LET under(key) == Field(node, key)
        valuesOf(n) == {n.entries[i].value : i \in DOMAIN n.entries}
    IN (IF IsObject(under(S_properties)) THEN valuesOf(under(S_properties)) ELSE {})
       \cup (IF Truthy(under(S_items)) THEN {under(S_items)} ELSE {})
       \cup UNION {IF under(key).kind = "array" THEN valuesOf(under(key)) ELSE {} :
                      key \in {S_allOf, S_oneOf, S_anyOf}}

RECURSIVE RefCycle(_, _, _)
\* Resolution starting at node comes back to a $ref it is already following.
RefCycle(node, spec, following) ==
    IF ~IsObject(node) THEN FALSE
    ELSE IF Truthy(Field(node, S_ref))
    THEN LET ref == Field(node, S_ref).text
             walked == Walk(spec, RefPath(ref))
         IN \/ ref \in following
            \/ ~walked.failed /\ RefCycle(walked.value, spec, following \cup {ref})
    ELSE \E inner \in Nested(node) : RefCycle(inner, spec, following)

\* C24: resolveSchemaRefs returns for every schema whose $ref chains are
\* acyclic, and exhausts the stack exactly when a chain leads back to itself.
C24_TerminatesUnlessCyclic ==
    schemaPc # "args" =>
        (schemaPc = "thrown" <=> RefCycle(schemaArgs.schema, schemaArgs.spec, {}))

\* A schema with a property that refers to the self-referential schema.
C24_Witness ==
    /\ schemaPc = "thrown"
    /\ schemaResult.first = RangeError
    /\ Field(schemaArgs.schema, S_type) # Undefined
    /\ RefCycle(schemaArgs.schema, schemaArgs.spec, {})

----------------------------------------------------------------------------
(* createMCPFromSwagger: the input schema, built and then resolved *)

S_required == <<"r","e","q","u","i","r","e","d">>

\* The document of the operations handed to buildInputSchema: one component
\* schema, an object with a required property.
SchemaDocument ==
    Obj(<<E(<<"c","o","m","p","o","n","e","n","t","s">>, Obj(<<E(<<"s","c","h","e","m","a","s">>, Obj(<<
        E(<<"P","e","t">>, Obj(<<E(S_type, Str(<<"o","b","j","e","c","t">>)),
                      E(S_properties, Obj(<<E(S_name, Typed(<<"s","t","r","i","n","g">>))>>)),
                      E(S_required, Arr(<<Str(S_name)>>))>>))>>))>>))>>)

\* The text of a type name or of a location tag.
TextOf(word) ==
    CASE word = "string" -> <<"s","t","r","i","n","g">>
      [] word = "integer" -> <<"i","n","t","e","g","e","r">>
      [] word = "object" -> <<"o","b","j","e","c","t">>
      [] word = "path" -> <<"p","a","t","h">>
      [] word = "query" -> <<"q","u","e","r","y">>
      [] word = "header" -> <<"h","e","a","d","e","r">>
      [] word = "cookie" -> <<"c","o","o","k","i","e">>
      [] OTHER -> <<>>

True == [kind |-> "boolean", text |-> <<"t","r","u","e">>, entries |-> <<>>]
False == [kind |-> "boolean", text |-> <<"f","a","l","s","e">>, entries |-> <<>>]

\* One property of the input schema as a JSON value.
PropertyNode(property) ==
    Obj((IF property.type = "" THEN <<>> ELSE <<E(S_type, Str(TextOf(property.type)))>>)
        \o (IF property.location = "" THEN <<>>
            ELSE <<E(<<"x","-","p","a","r","a","m","e","t","e","r","-","l","o","c","a","t","i","o","n">>,
                     Str(TextOf(property.location)))>>)
        \o (IF property.required.isTrue THEN <<E(S_required, True)>> ELSE <<>>))

\* The schema buildInputSchema returned as a JSON value.
SchemaNode(schema) ==
    Obj(<<E(S_type, Str(TextOf(schema.type))),
          E(S_properties, Obj([i \in DOMAIN schema.properties |->
                                 E(schema.properties[i].key,
                                   PropertyNode(schema.properties[i].value))])),
          E(S_required, Arr([i \in DOMAIN schema.required |-> Str(schema.required[i])])),
          E(<<"a","d","d","i","t","i","o","n","a","l","P","r","o","p","e","r","t","i","e","s">>, False)>>)

\* Line 242: resolveSchemaRefs(inputSchema, swagger)
ResolveInputSchema ==
    /\ schemaPc = "returned"
    /\ schemaResult' = resolveSchemaRefs(SchemaNode(schemaResult), SchemaDocument)
    /\ schemaPc' = "resolved"
    /\ UNCHANGED <<schemaArgs, compileVars, loadVars, requestVars, serverVars, poolVars>>

NextSchema == CallBuildInputSchema \/ ResolveInputSchema

SpecSchema == InitSchema /\ [][NextSchema]_vars

\* C27: for a JSON body that is a $ref to an object schema, the resolved input
\* schema holds each property of the referenced schema and each of its
\* required names.
C27_ReferencedBodyFlattened ==
    LET body == schemaArgs.given.requestBody
        referenced == Walk(SchemaDocument, RefPath(body.schema.ref)).value
        declared == Field(referenced, S_properties)
        names == Field(referenced, S_required)
        required == Field(schemaResult, S_required)
    IN (schemaPc = "resolved" /\ body.present /\ body.json /\ body.schema.ref # <<>>) =>
          /\ \A i \in DOMAIN declared.entries :
                Field(Field(schemaResult, S_properties), declared.entries[i].key)
                    = declared.entries[i].value
          /\ \A i \in DOMAIN names.entries :
                \E j \in DOMAIN required.entries :
                    required.entries[j].value = names.entries[i].value

----------------------------------------------------------------------------
(* swagger-to-mcp.js: startServer and its shutdown handler *)

MaxInvocations == 4
MaxSignals == 2

\* The shutdown handler arms no timer.
NoForceExitTimer(armed) == armed

\* Lines 366-369: setTimeout(() => process.exit(1), 5000)
ForceExitTimer(armed) == armed + 1

InitServer ==
    /\ ServerIdle
    /\ CompileNotStarted
    /\ LoadIdle
    /\ RequestIdle
    /\ SchemaIdle
    /\ PoolIdle

\* Lines 345-355, 376-379: the port is validated, the server listens and the
\* signal handlers are installed; an invalid port rejects the promise.
StartServer ==
    /\ serverState = "none"
    /\ \E port \in {DefaultPort, MinPort - 1, MaxPort + 1} :
          serverState' = IF validatePort(port) THEN "listening" ELSE "rejected"
    /\ UNCHANGED <<inFlight, accepted, signalsSeen, timers, processState,
                   compileVars, loadVars, requestVars, schemaVars, poolVars>>

\* A client's invocation reaches the listening server.
Accept ==
    /\ processState = "running"
    /\ serverState = "listening"
    /\ accepted < MaxInvocations
    /\ accepted' = accepted + 1
    /\ inFlight' = inFlight + 1
    /\ UNCHANGED <<serverState, signalsSeen, timers, processState,
                   compileVars, loadVars, requestVars, schemaVars, poolVars>>

\* An invocation in flight finishes.
Complete ==
    /\ processState = "running"
    /\ inFlight > 0
    /\ inFlight' = inFlight - 1
    /\ UNCHANGED <<serverState, accepted, signalsSeen, timers, processState,
                   compileVars, loadVars, requestVars, schemaVars, poolVars>>

\* Lines 357-374: SIGTERM or SIGINT runs shutdown: serverInstance.close(...)
\* and the force-exit timer, or process.exit(1) when close throws.
Shutdown ==
    /\ processState = "running"
    /\ serverState \in {"listening", "closing"}
    /\ signalsSeen < MaxSignals
    /\ signalsSeen' = signalsSeen + 1
    /\ \/ /\ serverState' = "closing"
          /\ timers' = ForceExitTimer(timers)
          /\ processState' = processState
       \/ /\ serverState' = serverState
          /\ timers' = timers
          /\ processState' = "exit1"
    /\ UNCHANGED <<inFlight, accepted, compileVars, loadVars, requestVars, schemaVars, poolVars>>

\* Lines 360-363: the server has closed, its callback exits the process.
ServerClosed ==
    /\ processState = "running"
    /\ serverState = "closing"
    /\ inFlight = 0
    /\ serverState' = "closed"
    /\ processState' = "exit0"
    /\ UNCHANGED <<inFlight, accepted, signalsSeen, timers,
                   compileVars, loadVars, requestVars, schemaVars, poolVars>>

\* Lines 366-369: the timer fires.
ForceExit ==
    /\ processState = "running"
    /\ timers > 0
    /\ processState' = "exit1"
    /\ UNCHANGED <<serverState, inFlight, accepted, signalsSeen, timers,
                   compileVars, loadVars, requestVars, schemaVars, poolVars>>

NextServer ==
    \/ StartServer
    \/ Accept
    \/ Complete
    \/ Shutdown
    \/ ServerClosed
    \/ ForceExit

\* An armed timer fires: the event loop runs its callback once it is due.
SpecServer == InitServer /\ [][NextServer]_vars /\ WF_vars(ForceExit)

----------------------------------------------------------------------------
(* Concurrent invocations of the registered handlers *)

\* Two operations of one document: GET /p/{id}, and POST /p/{id} with a
\* required JSON body.
PoolOperations ==
    <<[operation |-> Operation(<<>>, <<Param("path", S_id, TRUE, "integer")>>, NoBody),
       method |-> S_get, route |-> <<"/","p","/","{","i","d","}">>],
      [operation |-> Operation(<<>>, <<Param("path", S_id, TRUE, "integer")>>,
                               Body(TRUE, "object", S_name, <<S_name>>)),
       method |-> S_post, route |-> <<"/","p","/","{","i","d","}">>]>>

\* The documents the tools are compiled from: the two operations under one
\* route, with a public server, a private address over http, and a Swagger 2
\* host that is the loopback address.
PoolDocuments ==
    LET paths == <<[key |-> PoolOperations[1].route,
                    value |-> PathItem([i \in DOMAIN PoolOperations |->
                                          [key |-> PoolOperations[i].method,
                                           value |-> PoolOperations[i].operation]])]>>
    IN {Document(<<S_https_h>>, <<>>, paths),
        Document(<<<<"h","t","t","p",":","/","/","1","0",".","0",".","0",".","5">>>>, <<>>, paths),
        Document(<<>>, <<"1","2","7",".","0",".","0",".","1">>, paths)}

PoolInputs ==
    {<<>>,
     <<E(S_id, [t |-> "integer", v |-> <<"4","2">>])>>,
     <<E(S_id, [t |-> "integer", v |-> <<"7">>]),
       E(S_name, [t |-> "string", v |-> <<"R","e","x">>])>>,
     <<E(S_id, [t |-> "string", v |-> <<"a","/","b">>]),
       E(S_k, [t |-> "string", v |-> <<"a"," ","b">>])>>}

Invocations == {1, 2}

\* The read of validate.errors sees what another call left there.
ErrorsLeftBehind(written, before) == before

\* Lines 264-266: validate(input) assigns validate.errors and the next
\* statement reads it, with no await in between.
ErrorsRead(written, before) == written

\* The handlers as registration leaves them: each closes over its operation
\* (buildInputSchema has run on it) and over the base URL of the document
\* (line 196), and no validator has been called.
InitPool ==
    /\ swagger \in PoolDocuments
    /\ toolTable = [i \in DOMAIN PoolOperations |->
                      [operation |-> OperationAfterExtract(PoolOperations[i].operation),
                       method |-> PoolOperations[i].method,
                       route |-> PoolOperations[i].route,
                       baseUrl |-> getBaseUrl(swagger)]]
    /\ validateErrors = [i \in DOMAIN PoolOperations |-> <<>>]
    /\ invocations \in [Invocations ->
                          {[tool |-> tool, input |-> input, pc |-> "called",
                            request |-> NoRequest, outcome |-> NoOutcome] :
                              tool \in DOMAIN PoolOperations, input \in PoolInputs}]
    /\ options = [manifestOnly |-> FALSE, port |-> DefaultPort]
    /\ hostRejectsDuplicates = FALSE
    /\ pc = "idle"
    /\ CompileIdle
    /\ LoadIdle
    /\ RequestIdle
    /\ SchemaIdle
    /\ ServerIdle

\* Lines 262-276 up to the await: one invocation validates its input and builds
\* its request, or throws.
PoolInvoke(i) ==
    LET inv == invocations[i]
        tool == toolTable[inv.tool]
        schema == buildInputSchema(PoolOperations[inv.tool].operation)
        errors == errorsOf(schema, inv.input)
    IN /\ inv.pc = "called"
       /\ validateErrors' = [validateErrors EXCEPT ![inv.tool] = errors]
       /\ IF validate(schema, inv.input)
          THEN /\ invocations' =
                     [invocations EXCEPT
                         ![i].request = buildRequestConfig(inv.input, tool.operation,
                                                           tool.method, tool.route,
                                                           tool.baseUrl),
                         ![i].pc = "awaiting"]
               /\ toolTable' = [toolTable EXCEPT
                                   ![inv.tool].operation = OperationAfterExtract(@)]
          ELSE /\ invocations' =
                     [invocations EXCEPT
                         ![i].outcome =
                             Rethrown("validation", "Input validation failed: ",
                                      errorsText(ErrorsRead(errors,
                                                            validateErrors[inv.tool]))),
                         ![i].pc = "done"]
               /\ toolTable' = toolTable
       /\ UNCHANGED <<compileVars, loadVars, requestVars, schemaVars, serverVars>>

\* Lines 276-296: the request of one invocation settles.
PoolSettle(i) ==
    /\ invocations[i].pc = "awaiting"
    /\ \E settled \in {[status |-> "returned", cause |-> "", label |-> "", inner |-> "",
                        text |-> <<"response.data">>],
                       Rethrown("http", "", <<"m">>),
                       Rethrown("noResponse", "", <<"err.message">>)} :
          invocations' = [invocations EXCEPT ![i].outcome = settled, ![i].pc = "done"]
    /\ UNCHANGED <<toolTable, validateErrors,
                   compileVars, loadVars, requestVars, schemaVars, serverVars>>

NextPool == \E i \in Invocations : PoolInvoke(i) \/ PoolSettle(i)

SpecPool == InitPool /\ [][NextPool]_vars

\* What invocation i does when it is the only one: its request, or its failure.
AloneValid(i) ==
    validate(buildInputSchema(PoolOperations[invocations[i].tool].operation),
             invocations[i].input)

AloneRequest(i) ==
    LET tool == PoolOperations[invocations[i].tool]
    IN buildRequestConfig(invocations[i].input, OperationAfterExtract(tool.operation),
                          tool.method, tool.route, getBaseUrl(swagger))

AloneFailure(i) ==
    LET schema == buildInputSchema(PoolOperations[invocations[i].tool].operation)
    IN Rethrown("validation", "Input validation failed: ",
                errorsText(errorsOf(schema, invocations[i].input)))

AsWhenAlone ==
    \A i \in Invocations :
        invocations[i].pc # "called" =>
            IF AloneValid(i)
            THEN /\ invocations[i].request = AloneRequest(i)
                 /\ invocations[i].outcome.cause # "validation"
            ELSE /\ invocations[i].request = NoRequest
                 /\ invocations[i].pc = "done"
                 /\ invocations[i].outcome = AloneFailure(i)

\* C20 as stated: in every interleaving each invocation builds the request and
\* returns the outcome it produces alone, and no invocation writes to the
\* compiled validator, the operation or the request template.
C20_NoSharedWrites ==
    /\ []AsWhenAlone
    /\ [][toolTable' = toolTable /\ validateErrors' = validateErrors]_vars

\* C20 amended: in every interleaving each invocation builds the request and
\* returns the outcome it produces alone, and no invocation changes the
\* operation or the request template; validate.errors is written by each call
\* and read in the same synchronous step.
C20_IndependentInvocations ==
    /\ []AsWhenAlone
    /\ [][toolTable' = toolTable]_vars

\* Two invocations of one tool in flight at once, the second failing validation
\* while the first awaits its response.
C20_Witness ==
    /\ invocations[1].tool = invocations[2].tool
    /\ invocations[1].pc = "awaiting"
    /\ invocations[2].pc = "done"
    /\ invocations[2].outcome.cause = "validation"
    /\ validateErrors[invocations[1].tool] # <<>>

\* C25: every request a handler dispatches goes to a base URL that validateURL
\* admits under the security configuration of the compile run (the default).
C25_DispatchTargetsValidated ==
    \A i \in Invocations :
        invocations[i].pc = "awaiting" =>
            /\ startsWith(invocations[i].request.url, getBaseUrl(swagger))
            /\ validateURL(getBaseUrl(swagger), defaultSecurityConfig).status = "ok"

====
